---- MODULE Spec2Model ----
(***************************************************************************)
(* The object record of boa (boa/src/object/mod.rs): the kinds of object   *)
(* and their payloads, the binding of each kind to its table of internal   *)
(* methods, the prototype link and the extensible flag, the kind-checked   *)
(* accessors, the host-object downcasts, the property passthrough and the  *)
(* FunctionBuilder / ConstructorBuilder that rebind existing objects.      *)
(***************************************************************************)
EXTENDS Integers, Sequences, FiniteSets, TLC

VARIABLES
    heap,       \* the object records that exist; a JsObject is an index into it
    bound_as,   \* per record: the constructibility given when its data was last bound
    fb,         \* the FunctionBuilder in use, if any
    cb,         \* the ConstructorBuilder in use, if any
    ret,        \* the last operation: its name, receiver, argument, result and
                \* the receiver as it was before the call
    borrow      \* the accesses outstanding on the records (the guards of
                \* JsObject::borrow and JsObject::borrow_mut), in the order taken

vars == <<heap, bound_as, fb, cb, ret, borrow>>

----------------------------------------------------------------------------
(* Bounds of the model. *)

\* records on the heap under Spec (prototype and extensibility)
MaxObjects == 3
\* records on the heap under SpecProps (property passthrough)
MaxPropObjects == 1
\* records on the heap under SpecKinds (binding and introspection)
MaxKindObjects == 1
\* records the builders may allocate beyond the standard objects, under SpecBuild
MaxBuildObjects == 2
\* distinct payload contents of a kind (0 .. MaxPayload)
MaxPayload == 1

\* accesses outstanding at a time under SpecBorrow
MaxBorrows == 2

----------------------------------------------------------------------------
(* Option<T>: None is the empty sequence, Some(x) the one-element one. *)

None == <<>>

Some(x) == <<x>>

is_some(o) == o # None

unwrap(o) == o[1]

----------------------------------------------------------------------------
(* ObjectKind: a variant and its payload.  The payload is flattened to     *)
(* three fields: tag (the Function variant, the Arguments variant or the   *)
(* concrete type of a host value), flag (Function's constructor field) and *)
(* val (the contents).                                                     *)

ObjectKind(variant, tag, flag, val) ==
    [variant |-> variant, tag |-> tag, flag |-> flag, val |-> val]

\* Function::Native { function, constructor } and
\* Function::Closure { function, constructor, captures }
Function(tag, constructor, captures) ==
    [tag |-> tag, constructor |-> constructor, captures |-> captures]

\* Function::is_constructor
is_constructor(function) == function.constructor

ObjectData(kind, internal_methods) ==
    [kind |-> kind, internal_methods |-> internal_methods]

ObjectData_array ==
    ObjectData(ObjectKind("Array", "", FALSE, 0), "ARRAY_EXOTIC_INTERNAL_METHODS")

ObjectData_array_iterator(array_iterator) ==
    ObjectData(ObjectKind("ArrayIterator", "", FALSE, array_iterator),
               "ORDINARY_INTERNAL_METHODS")

ObjectData_array_buffer(array_buffer) ==
    ObjectData(ObjectKind("ArrayBuffer", "", FALSE, array_buffer),
               "ORDINARY_INTERNAL_METHODS")

ObjectData_map(map) ==
    ObjectData(ObjectKind("Map", "", FALSE, map), "ORDINARY_INTERNAL_METHODS")

ObjectData_map_iterator(map_iterator) ==
    ObjectData(ObjectKind("MapIterator", "", FALSE, map_iterator),
               "ORDINARY_INTERNAL_METHODS")

ObjectData_reg_exp(reg_exp) ==
    ObjectData(ObjectKind("RegExp", "", FALSE, reg_exp), "ORDINARY_INTERNAL_METHODS")

ObjectData_reg_exp_string_iterator(reg_exp_string_iterator) ==
    ObjectData(ObjectKind("RegExpStringIterator", "", FALSE, reg_exp_string_iterator),
               "ORDINARY_INTERNAL_METHODS")

ObjectData_big_int(big_int) ==
    ObjectData(ObjectKind("BigInt", "", FALSE, big_int), "ORDINARY_INTERNAL_METHODS")

ObjectData_boolean(boolean) ==
    ObjectData(ObjectKind("Boolean", "", FALSE, boolean), "ORDINARY_INTERNAL_METHODS")

ObjectData_for_in_iterator(for_in_iterator) ==
    ObjectData(ObjectKind("ForInIterator", "", FALSE, for_in_iterator),
               "ORDINARY_INTERNAL_METHODS")

ObjectData_function_flagless(function) ==
    ObjectData(ObjectKind("Function", function.tag, function.constructor,
                          function.captures),
               "FUNCTION_INTERNAL_METHODS")

ObjectData_function(function) ==
    ObjectData(ObjectKind("Function", function.tag, function.constructor,
                          function.captures),
               IF is_constructor(function)
               THEN "CONSTRUCTOR_INTERNAL_METHODS"
               ELSE "FUNCTION_INTERNAL_METHODS")

ObjectData_bound_function(bound_function, constructor) ==
    ObjectData(ObjectKind("BoundFunction", "", FALSE, bound_function),
               IF constructor
               THEN "BOUND_CONSTRUCTOR_EXOTIC_INTERNAL_METHODS"
               ELSE "BOUND_FUNCTION_EXOTIC_INTERNAL_METHODS")

ObjectData_set(set) ==
    ObjectData(ObjectKind("Set", "", FALSE, set), "ORDINARY_INTERNAL_METHODS")

ObjectData_set_iterator(set_iterator) ==
    ObjectData(ObjectKind("SetIterator", "", FALSE, set_iterator),
               "ORDINARY_INTERNAL_METHODS")

ObjectData_string_ordinary(string) ==
    ObjectData(ObjectKind("String", "", FALSE, string), "ORDINARY_INTERNAL_METHODS")

ObjectData_string(string) ==
    ObjectData(ObjectKind("String", "", FALSE, string), "STRING_EXOTIC_INTERNAL_METHODS")

ObjectData_string_iterator(string_iterator) ==
    ObjectData(ObjectKind("StringIterator", "", FALSE, string_iterator),
               "ORDINARY_INTERNAL_METHODS")

ObjectData_number(number) ==
    ObjectData(ObjectKind("Number", "", FALSE, number), "ORDINARY_INTERNAL_METHODS")

ObjectData_symbol(symbol) ==
    ObjectData(ObjectKind("Symbol", "", FALSE, symbol), "ORDINARY_INTERNAL_METHODS")

ObjectData_error ==
    ObjectData(ObjectKind("Error", "", FALSE, 0), "ORDINARY_INTERNAL_METHODS")

ObjectData_ordinary ==
    ObjectData(ObjectKind("Ordinary", "", FALSE, 0), "ORDINARY_INTERNAL_METHODS")

ObjectData_date(date) ==
    ObjectData(ObjectKind("Date", "", FALSE, date), "ORDINARY_INTERNAL_METHODS")

ObjectData_global ==
    ObjectData(ObjectKind("Global", "", FALSE, 0), "ORDINARY_INTERNAL_METHODS")

\* arguments is [tag |-> "Unmapped" or "Mapped", val |-> the MappedArguments]
ObjectData_arguments_collapsed(arguments) ==
    ObjectData(ObjectKind("Arguments", arguments.tag, FALSE, arguments.val),
               "ARGUMENTS_EXOTIC_INTERNAL_METHODS")

ObjectData_arguments(arguments) ==
    ObjectData(ObjectKind("Arguments", arguments.tag, FALSE, arguments.val),
               IF arguments.tag = "Unmapped"
               THEN "ORDINARY_INTERNAL_METHODS"
               ELSE "ARGUMENTS_EXOTIC_INTERNAL_METHODS")

\* native_object is [type |-> the concrete type, val |-> the value], boxed
ObjectData_native_object(native_object) ==
    ObjectData(ObjectKind("NativeObject", native_object.type, FALSE, native_object.val),
               "ORDINARY_INTERNAL_METHODS")

ObjectData_integer_indexed(integer_indexed) ==
    ObjectData(ObjectKind("IntegerIndexed", "", FALSE, integer_indexed),
               "INTEGER_INDEXED_EXOTIC_INTERNAL_METHODS")

----------------------------------------------------------------------------
(* JsValue, PropertyDescriptor and PropertyMap. *)

JsString(s) == [t |-> "String", s |-> s, n |-> 0]

JsInteger(n) == [t |-> "Integer", s |-> "", n |-> n]

\* a JsValue holding the JsObject o
JsObjectValue(o) == [t |-> "Object", s |-> "", n |-> o]

PropertyDescriptor(value, writable, enumerable, configurable) ==
    [value |-> value, writable |-> writable, enumerable |-> enumerable,
     configurable |-> configurable]

\* the keys the builders write, and two more
PropertyKeys == {"name", "length", "prototype", "constructor", "k1", "k2"}

\* PropertyMap::default(): no key has an entry
PropertyMap_default == [k \in PropertyKeys |-> None]

\* PropertyMap::insert(key, property): the entry is replaced, the old one returned
PropertyMap_insert(properties, key, property) ==
    [self |-> [properties EXCEPT ![key] = Some(property)], ret |-> properties[key]]

\* PropertyMap::remove(key): the entry is dropped, the old one returned
PropertyMap_remove(properties, key) ==
    [self |-> [properties EXCEPT ![key] = None], ret |-> properties[key]]

----------------------------------------------------------------------------
(* Object: the record, and its methods as functions from the receiver     *)
(* (and the arguments) to the receiver afterwards and the value returned. *)

Object(data, properties, prototype, extensible) ==
    [data |-> data, properties |-> properties, prototype |-> prototype,
     extensible |-> extensible]

Object_default_closed == Object(ObjectData_ordinary, PropertyMap_default, None, FALSE)

\* impl Default for Object
Object_default == Object(ObjectData_ordinary, PropertyMap_default, None, TRUE)

\* JsObject::from_proto_and_data(prototype, data)
from_proto_and_data(prototype, data) ==
    Object(data, PropertyMap_default, prototype, TRUE)

\* JsObject's PartialEq: the same allocation
JsObject_equals(lhs, rhs) == lhs = rhs

\* Option<JsObject>'s PartialEq: both None, or both Some of equal JsObjects
JsPrototype_eq(a, b) ==
    \/ a = None /\ b = None
    \/ is_some(a) /\ is_some(b) /\ JsObject_equals(unwrap(a), unwrap(b))

prototype(self) == self.prototype

set_prototype_unchecked(self, new_prototype) ==
    [self |-> [self EXCEPT !.prototype = new_prototype], ret |-> TRUE]

set_prototype_no_store(self, new_prototype) ==
    IF self.extensible
    THEN [self |-> self, ret |-> TRUE]
    ELSE [self |-> self, ret |-> JsPrototype_eq(self.prototype, new_prototype)]

set_prototype(self, new_prototype) ==
    IF self.extensible
    THEN [self |-> [self EXCEPT !.prototype = new_prototype], ret |-> TRUE]
    ELSE [self |-> self, ret |-> JsPrototype_eq(self.prototype, new_prototype)]

properties(self) == self.properties

insert_checked(self, key, property) ==
    IF /\ is_some(self.properties[key])
       /\ ~unwrap(self.properties[key]).writable
       /\ ~unwrap(self.properties[key]).configurable
    THEN [self |-> self, ret |-> self.properties[key]]
    ELSE LET r == PropertyMap_insert(self.properties, key, property)
         IN  [self |-> [self EXCEPT !.properties = r.self], ret |-> r.ret]

insert(self, key, property) ==
    LET r == PropertyMap_insert(self.properties, key, property)
    IN  [self |-> [self EXCEPT !.properties = r.self], ret |-> r.ret]

remove(self, key) ==
    LET r == PropertyMap_remove(self.properties, key)
    IN  [self |-> [self EXCEPT !.properties = r.self], ret |-> r.ret]

insert_property_checked(self, key, property) ==
    IF is_some(self.properties[key]) /\ ~unwrap(self.properties[key]).writable
    THEN [self |-> self, ret |-> self.properties[key]]
    ELSE insert(self, key, property)

insert_property(self, key, property) == insert(self, key, property)

\* [[PreventExtensions]] of the tables: the one writer of extensible
prevent_extensions(self) ==
    [self |-> [self EXCEPT !.extensible = FALSE], ret |-> TRUE]

----------------------------------------------------------------------------
(* The predicates and accessors of Object: each matches self.data against  *)
(* one ObjectKind and answers false / None for every other.                *)

is_array(self) == self.data.kind.variant = "Array"

as_array(self) ==
    IF self.data.kind.variant = "Array" THEN Some(<<>>) ELSE None

is_array_iterator(self) == self.data.kind.variant = "ArrayIterator"

as_array_iterator(self) ==
    IF self.data.kind.variant = "ArrayIterator" THEN Some(self.data.kind.val) ELSE None

is_array_buffer(self) == self.data.kind.variant = "ArrayBuffer"

as_array_buffer(self) ==
    IF self.data.kind.variant = "ArrayBuffer" THEN Some(self.data.kind.val) ELSE None

as_array_buffer_mut(self) ==
    IF self.data.kind.variant = "ArrayBuffer" THEN Some(self.data.kind.val) ELSE None

as_array_iterator_mut(self) ==
    IF self.data.kind.variant = "ArrayIterator" THEN Some(self.data.kind.val) ELSE None

as_string_iterator_mut(self) ==
    IF self.data.kind.variant = "StringIterator" THEN Some(self.data.kind.val) ELSE None

as_regexp_string_iterator_mut(self) ==
    IF self.data.kind.variant = "RegExpStringIterator" THEN Some(self.data.kind.val) ELSE None

as_for_in_iterator(self) ==
    IF self.data.kind.variant = "ForInIterator" THEN Some(self.data.kind.val) ELSE None

as_for_in_iterator_mut(self) ==
    IF self.data.kind.variant = "ForInIterator" THEN Some(self.data.kind.val) ELSE None

is_map(self) == self.data.kind.variant = "Map"

as_map_ref(self) ==
    IF self.data.kind.variant = "Map" THEN Some(self.data.kind.val) ELSE None

as_map_mut(self) ==
    IF self.data.kind.variant = "Map" THEN Some(self.data.kind.val) ELSE None

is_map_iterator(self) == self.data.kind.variant = "MapIterator"

as_map_iterator_ref(self) ==
    IF self.data.kind.variant = "MapIterator" THEN Some(self.data.kind.val) ELSE None

as_map_iterator_mut(self) ==
    IF self.data.kind.variant = "MapIterator" THEN Some(self.data.kind.val) ELSE None

is_set(self) == self.data.kind.variant = "Set"

as_set_ref(self) ==
    IF self.data.kind.variant = "Set" THEN Some(self.data.kind.val) ELSE None

as_set_mut(self) ==
    IF self.data.kind.variant = "Set" THEN Some(self.data.kind.val) ELSE None

as_set_iterator_mut(self) ==
    IF self.data.kind.variant = "SetIterator" THEN Some(self.data.kind.val) ELSE None

is_string(self) == self.data.kind.variant = "String"

as_string(self) ==
    IF self.data.kind.variant = "String" THEN Some(self.data.kind.val) ELSE None

is_function(self) == self.data.kind.variant = "Function"

as_function(self) ==
    IF self.data.kind.variant = "Function"
    THEN Some(Function(self.data.kind.tag, self.data.kind.flag, self.data.kind.val))
    ELSE None

as_function_mut(self) ==
    IF self.data.kind.variant = "Function"
    THEN Some(Function(self.data.kind.tag, self.data.kind.flag, self.data.kind.val))
    ELSE None

as_bound_function(self) ==
    IF self.data.kind.variant = "BoundFunction" THEN Some(self.data.kind.val) ELSE None

is_symbol(self) == self.data.kind.variant = "Symbol"

as_symbol(self) ==
    IF self.data.kind.variant = "Symbol" THEN Some(self.data.kind.val) ELSE None

is_error(self) == self.data.kind.variant = "Error"

as_error(self) ==
    IF self.data.kind.variant = "Error" THEN Some(<<>>) ELSE None

is_boolean(self) == self.data.kind.variant = "Boolean"

as_boolean(self) ==
    IF self.data.kind.variant = "Boolean" THEN Some(self.data.kind.val) ELSE None

is_number(self) == self.data.kind.variant = "Number"

as_number(self) ==
    IF self.data.kind.variant = "Number" THEN Some(self.data.kind.val) ELSE None

is_bigint(self) == self.data.kind.variant = "BigInt"

as_bigint(self) ==
    IF self.data.kind.variant = "BigInt" THEN Some(self.data.kind.val) ELSE None

is_date(self) == self.data.kind.variant = "Date"

as_date(self) ==
    IF self.data.kind.variant = "Date" THEN Some(self.data.kind.val) ELSE None

is_regexp(self) == self.data.kind.variant = "RegExp"

as_regexp(self) ==
    IF self.data.kind.variant = "RegExp" THEN Some(self.data.kind.val) ELSE None

is_typed_array(self) == self.data.kind.variant = "IntegerIndexed"

is_arguments(self) == self.data.kind.variant = "Arguments"

as_mapped_arguments_any(self) ==
    IF self.data.kind.variant = "Arguments"
    THEN Some(self.data.kind.val)
    ELSE None

as_mapped_arguments(self) ==
    IF self.data.kind.variant = "Arguments" /\ self.data.kind.tag = "Mapped"
    THEN Some(self.data.kind.val)
    ELSE None

as_typed_array(self) ==
    IF self.data.kind.variant = "IntegerIndexed" THEN Some(self.data.kind.val) ELSE None

as_typed_array_mut(self) ==
    IF self.data.kind.variant = "IntegerIndexed" THEN Some(self.data.kind.val) ELSE None

is_ordinary(self) == self.data.kind.variant = "Ordinary"

is_native_object(self) == self.data.kind.variant = "NativeObject"

as_native_object(self) ==
    IF self.data.kind.variant = "NativeObject"
    THEN Some([type |-> self.data.kind.tag, val |-> self.data.kind.val])
    ELSE None

\* <dyn Any>::is::<T>(): the TypeId of the boxed value is that of T
Any_is(type, T) == type = T

is_any_type(self, T) == self.data.kind.variant = "NativeObject"

is(self, T) ==
    IF self.data.kind.variant = "NativeObject"
    THEN Any_is(self.data.kind.tag, T)
    ELSE FALSE

downcast_ref(self, T) ==
    IF self.data.kind.variant = "NativeObject"
    THEN IF Any_is(self.data.kind.tag, T) THEN Some(self.data.kind.val) ELSE None
    ELSE None

downcast_mut(self, T) ==
    IF self.data.kind.variant = "NativeObject"
    THEN IF Any_is(self.data.kind.tag, T) THEN Some(self.data.kind.val) ELSE None
    ELSE None

\* the accessors taking &self, by name
Accessors ==
    {"is_array", "as_array", "is_array_iterator", "as_array_iterator",
     "is_array_buffer", "as_array_buffer", "as_for_in_iterator", "is_map",
     "as_map_ref", "is_map_iterator", "as_map_iterator_ref", "is_set",
     "as_set_ref", "is_string", "as_string", "is_function", "as_function",
     "as_bound_function", "is_symbol", "as_symbol", "is_error", "as_error",
     "is_boolean", "as_boolean", "is_number", "as_number", "is_bigint",
     "as_bigint", "is_date", "as_date", "is_regexp", "as_regexp", "is_typed_array",
     "is_arguments", "as_mapped_arguments", "as_typed_array", "is_ordinary",
     "is_native_object", "as_native_object"}

\* the accessors taking &mut self that hand out the payload's contents, by name
MutAccessors ==
    {"as_array_buffer_mut", "as_array_iterator_mut", "as_string_iterator_mut",
     "as_regexp_string_iterator_mut", "as_for_in_iterator_mut", "as_map_mut",
     "as_map_iterator_mut", "as_set_mut", "as_set_iterator_mut",
     "as_typed_array_mut"}

Apply(name, self) ==
    CASE name = "is_array" -> is_array(self)
      [] name = "as_array" -> as_array(self)
      [] name = "is_array_iterator" -> is_array_iterator(self)
      [] name = "as_array_iterator" -> as_array_iterator(self)
      [] name = "is_array_buffer" -> is_array_buffer(self)
      [] name = "as_array_buffer" -> as_array_buffer(self)
      [] name = "as_for_in_iterator" -> as_for_in_iterator(self)
      [] name = "is_map" -> is_map(self)
      [] name = "as_map_ref" -> as_map_ref(self)
      [] name = "is_map_iterator" -> is_map_iterator(self)
      [] name = "as_map_iterator_ref" -> as_map_iterator_ref(self)
      [] name = "is_set" -> is_set(self)
      [] name = "as_set_ref" -> as_set_ref(self)
      [] name = "is_string" -> is_string(self)
      [] name = "as_string" -> as_string(self)
      [] name = "is_function" -> is_function(self)
      [] name = "as_function" -> as_function(self)
      [] name = "as_bound_function" -> as_bound_function(self)
      [] name = "is_symbol" -> is_symbol(self)
      [] name = "as_symbol" -> as_symbol(self)
      [] name = "is_error" -> is_error(self)
      [] name = "as_error" -> as_error(self)
      [] name = "is_boolean" -> is_boolean(self)
      [] name = "as_boolean" -> as_boolean(self)
      [] name = "is_number" -> is_number(self)
      [] name = "as_number" -> as_number(self)
      [] name = "is_bigint" -> is_bigint(self)
      [] name = "as_bigint" -> as_bigint(self)
      [] name = "is_date" -> is_date(self)
      [] name = "as_date" -> as_date(self)
      [] name = "is_regexp" -> is_regexp(self)
      [] name = "as_regexp" -> as_regexp(self)
      [] name = "is_typed_array" -> is_typed_array(self)
      [] name = "is_arguments" -> is_arguments(self)
      [] name = "as_mapped_arguments" -> as_mapped_arguments(self)
      [] name = "as_typed_array" -> as_typed_array(self)
      [] name = "is_ordinary" -> is_ordinary(self)
      [] name = "is_native_object" -> is_native_object(self)
      [] name = "as_native_object" -> as_native_object(self)

ApplyMut(name, self) ==
    CASE name = "as_array_buffer_mut" -> as_array_buffer_mut(self)
      [] name = "as_array_iterator_mut" -> as_array_iterator_mut(self)
      [] name = "as_string_iterator_mut" -> as_string_iterator_mut(self)
      [] name = "as_regexp_string_iterator_mut" -> as_regexp_string_iterator_mut(self)
      [] name = "as_for_in_iterator_mut" -> as_for_in_iterator_mut(self)
      [] name = "as_map_mut" -> as_map_mut(self)
      [] name = "as_map_iterator_mut" -> as_map_iterator_mut(self)
      [] name = "as_set_mut" -> as_set_mut(self)
      [] name = "as_set_iterator_mut" -> as_set_iterator_mut(self)
      [] name = "as_typed_array_mut" -> as_typed_array_mut(self)

----------------------------------------------------------------------------
(* The state machine. *)

JsObjects == 1 .. Len(heap)

\* the values of Option<JsObject> over the records that exist
JsPrototypes == {None} \cup {Some(o) : o \in JsObjects}

Call(op, obj, arg, val, pre) ==
    [op |-> op, obj |-> obj, arg |-> arg, val |-> val, pre |-> pre]

NoCall == Call("", 0, None, None, None)

\* no result is pending
Idle == ret.op = ""

\* calls are made one at a time: the caller takes a result before the next call.
\* a record is allocated for (prototype, data); flag is the constructibility
\* its data was bound with
Allocate(op, proto, data, flag) ==
    /\ Idle
    /\ heap' = Append(heap, from_proto_and_data(proto, data))
    /\ bound_as' = Append(bound_as, flag)
    /\ ret' = Call(op, Len(heap) + 1, proto, None, None)

\* a method of Object is called on record o through borrow_mut / borrow
Method(op, o, arg, r) ==
    /\ Idle
    /\ heap' = [heap EXCEPT ![o] = r.self]
    /\ ret' = Call(op, o, arg, r.ret, heap[o])

NewOrdinary(max) ==
    /\ Len(heap) < max
    /\ \E proto \in JsPrototypes :
          Allocate("from_proto_and_data", proto, ObjectData_ordinary, FALSE)
    /\ UNCHANGED <<fb, cb, borrow>>

SetPrototype ==
    /\ \E o \in JsObjects, new_prototype \in JsPrototypes :
          Method("set_prototype", o, new_prototype, set_prototype(heap[o], new_prototype))
    /\ UNCHANGED <<bound_as, fb, cb, borrow>>

PreventExtensions ==
    /\ \E o \in JsObjects :
          Method("prevent_extensions", o, None, prevent_extensions(heap[o]))
    /\ UNCHANGED <<bound_as, fb, cb, borrow>>

\* the caller takes the result of the last call
Return ==
    /\ ret.op \notin {"", "panic"}
    /\ ret' = NoCall
    /\ UNCHANGED <<heap, bound_as, fb, cb, borrow>>

Init ==
    /\ heap = <<>>
    /\ bound_as = <<>>
    /\ fb = None
    /\ cb = None
    /\ ret = NoCall
    /\ borrow = <<>>

(* Spec: records are made, their prototypes set and their extension prevented. *)

Next ==
    \/ NewOrdinary(MaxObjects)
    \/ SetPrototype
    \/ PreventExtensions
    \/ Return

Spec == Init /\ [][Next]_vars

----------------------------------------------------------------------------
(* C1: on an extensible object set_prototype(Q) returns true for every Q, *)
(* none included, and prototype() is Q right after it.                    *)
C1_SetPrototypeExtensible ==
    (ret.op = "set_prototype" /\ ret.pre.extensible) =>
        /\ ret.val = TRUE
        /\ prototype(heap[ret.obj]) = ret.arg

\* an extensible object with a prototype was given another one, and was given none
C1_Witness ==
    /\ ret.op = "set_prototype"
    /\ ret.pre.extensible
    /\ is_some(ret.pre.prototype)
    /\ ret.arg # ret.pre.prototype
    /\ prototype(heap[ret.obj]) = ret.arg

(* C2: on a non-extensible object with prototype P, set_prototype(Q)       *)
(* returns true exactly when Q is P (both none or the same object), and    *)
(* prototype() is P afterwards either way.                                 *)
C2_SetPrototypeNonExtensible ==
    (ret.op = "set_prototype" /\ ~ret.pre.extensible) =>
        /\ ret.val = (ret.arg = ret.pre.prototype)
        /\ prototype(heap[ret.obj]) = ret.pre.prototype

\* a non-extensible object with a prototype refused another object as prototype
C2_Witness ==
    /\ ret.op = "set_prototype"
    /\ ~ret.pre.extensible
    /\ is_some(ret.pre.prototype)
    /\ is_some(ret.arg)
    /\ ret.arg # ret.pre.prototype
    /\ ret.val = FALSE

----------------------------------------------------------------------------
(* SpecProps: the property passthrough of a record. *)

\* the descriptors the callers pass: two values, every writable / configurable
Descriptors ==
    {PropertyDescriptor(JsInteger(n), w, FALSE, c) :
        n \in {1, 2}, w \in BOOLEAN, c \in BOOLEAN}

UserKeys == {"k1", "k2"}

NewDefault ==
    /\ Idle
    /\ Len(heap) < MaxPropObjects
    /\ heap' = Append(heap, Object_default)
    /\ bound_as' = Append(bound_as, FALSE)
    /\ ret' = Call("default", Len(heap) + 1, None, None, None)
    /\ UNCHANGED <<fb, cb, borrow>>

Insert ==
    /\ \E o \in JsObjects, key \in UserKeys, property \in Descriptors :
          Method("insert", o, [key |-> key, property |-> property],
                 insert(heap[o], key, property))
    /\ UNCHANGED <<bound_as, fb, cb, borrow>>

InsertProperty ==
    /\ \E o \in JsObjects, key \in UserKeys, property \in Descriptors :
          Method("insert_property", o, [key |-> key, property |-> property],
                 insert_property(heap[o], key, property))
    /\ UNCHANGED <<bound_as, fb, cb, borrow>>

Remove ==
    /\ \E o \in JsObjects, key \in UserKeys :
          Method("remove", o, [key |-> key], remove(heap[o], key))
    /\ UNCHANGED <<bound_as, fb, cb, borrow>>

NextProps ==
    \/ NewDefault
    \/ Insert
    \/ InsertProperty
    \/ Remove
    \/ Return

SpecProps == Init /\ [][NextProps]_vars

(* C10: insert_property(k, d) always succeeds and overwrites: it returns   *)
(* the entry k had (empty when it had none, d1 when it held d1, whatever   *)
(* d1's attributes), leaves k mapped to d, and leaves every other key's    *)
(* entry as it was.                                                        *)
C10_InsertPropertyOverwrites ==
    ret.op = "insert_property" =>
        /\ ret.val = properties(ret.pre)[ret.arg.key]
        /\ properties(heap[ret.obj])[ret.arg.key] = Some(ret.arg.property)
        /\ \A k \in PropertyKeys \ {ret.arg.key} :
              properties(heap[ret.obj])[k] = properties(ret.pre)[k]

\* the second insert_property of a key whose entry d1 was neither writable nor
\* configurable returned d1 and left another descriptor, beside another key's entry
C10_Witness ==
    /\ ret.op = "insert_property"
    /\ is_some(ret.val)
    /\ ~unwrap(ret.val).writable
    /\ ~unwrap(ret.val).configurable
    /\ ret.arg.property # unwrap(ret.val)
    /\ properties(heap[ret.obj])[ret.arg.key] = Some(ret.arg.property)
    /\ \E k \in UserKeys \ {ret.arg.key} : is_some(properties(heap[ret.obj])[k])

\* insert_property on a key with no entry returned empty and left the entry
C10_WitnessFresh ==
    /\ ret.op = "insert_property"
    /\ ret.val = None
    /\ properties(heap[ret.obj])[ret.arg.key] = Some(ret.arg.property)

(* C13: a newly constructed record is extensible: the default object has  *)
(* extensible = true, is of kind Ordinary with the ordinary table, and has *)
(* no prototype and no properties.                                         *)
C13_DefaultObject ==
    ret.op = "default" =>
        /\ heap[ret.obj].extensible
        /\ heap[ret.obj].data.kind.variant = "Ordinary"
        /\ heap[ret.obj].data.internal_methods = "ORDINARY_INTERNAL_METHODS"
        /\ prototype(heap[ret.obj]) = None
        /\ \A k \in PropertyKeys : properties(heap[ret.obj])[k] = None

\* a default object was just made, and is the newest record
C13_Witness ==
    /\ ret.op = "default"
    /\ ret.obj = Len(heap)
    /\ heap[ret.obj].extensible

\* C11 as stated: insert is the contract-checked define, so it leaves an entry
\* that is neither writable nor configurable as it was
C11_AsStated ==
    (/\ ret.op = "insert"
     /\ is_some(ret.val)
     /\ ~unwrap(ret.val).writable
     /\ ~unwrap(ret.val).configurable)
        => properties(heap[ret.obj])[ret.arg.key] = ret.val

(* C11: insert and insert_property are one operation under two names:     *)
(* each replaces the entry of the key whatever the old entry allows,      *)
(* returns the old entry, and leaves the receiver and returns the value    *)
(* the other would on the same receiver, key and descriptor.              *)
C11_InsertIsInsertProperty ==
    ret.op \in {"insert", "insert_property"} =>
        /\ properties(heap[ret.obj])[ret.arg.key] = Some(ret.arg.property)
        /\ ret.val = properties(ret.pre)[ret.arg.key]
        /\ heap[ret.obj] = insert(ret.pre, ret.arg.key, ret.arg.property).self
        /\ heap[ret.obj] = insert_property(ret.pre, ret.arg.key, ret.arg.property).self
        /\ insert(ret.pre, ret.arg.key, ret.arg.property).ret
              = insert_property(ret.pre, ret.arg.key, ret.arg.property).ret

\* insert replaced an entry that was neither writable nor configurable by
\* another descriptor
C11_Witness ==
    /\ ret.op = "insert"
    /\ is_some(ret.val)
    /\ ~unwrap(ret.val).writable
    /\ ~unwrap(ret.val).configurable
    /\ ret.arg.property # unwrap(ret.val)
    /\ properties(heap[ret.obj])[ret.arg.key] = Some(ret.arg.property)

----------------------------------------------------------------------------
(* SpecKinds: a payload of any kind is bound to its table and made a       *)
(* record, and the record is asked what it is.                             *)

PayloadVals == 0 .. MaxPayload

\* the concrete types of the host values
NativeTypes == {"T", "U"}

\* Native and Closure functions, constructors or not; a plain closure
\* captures ()
Functions == {Function(tag, c, 0) : tag \in {"Native", "Closure"}, c \in BOOLEAN}

ArgumentsValues ==
    {[tag |-> "Unmapped", val |-> 0]} \cup {[tag |-> "Mapped", val |-> v] : v \in PayloadVals}

NativeObjects == {[type |-> t, val |-> v] : t \in NativeTypes, v \in PayloadVals}

Binding(fn, data, flag) == [fn |-> fn, data |-> data, flag |-> flag]

\* every call of a payload constructor: its name, the ObjectData it returns and
\* the constructibility it was given
Bindings ==
    {Binding("array", ObjectData_array, FALSE),
     Binding("error", ObjectData_error, FALSE),
     Binding("ordinary", ObjectData_ordinary, FALSE),
     Binding("global", ObjectData_global, FALSE)}
    \cup {Binding("array_iterator", ObjectData_array_iterator(v), FALSE) : v \in PayloadVals}
    \cup {Binding("array_buffer", ObjectData_array_buffer(v), FALSE) : v \in PayloadVals}
    \cup {Binding("map", ObjectData_map(v), FALSE) : v \in PayloadVals}
    \cup {Binding("map_iterator", ObjectData_map_iterator(v), FALSE) : v \in PayloadVals}
    \cup {Binding("reg_exp", ObjectData_reg_exp(v), FALSE) : v \in PayloadVals}
    \cup {Binding("reg_exp_string_iterator", ObjectData_reg_exp_string_iterator(v), FALSE) :
            v \in PayloadVals}
    \cup {Binding("big_int", ObjectData_big_int(v), FALSE) : v \in PayloadVals}
    \cup {Binding("boolean", ObjectData_boolean(v), FALSE) : v \in PayloadVals}
    \cup {Binding("for_in_iterator", ObjectData_for_in_iterator(v), FALSE) : v \in PayloadVals}
    \cup {Binding("function", ObjectData_function(f), f.constructor) : f \in Functions}
    \cup {Binding("bound_function", ObjectData_bound_function(v, c), c) :
            v \in PayloadVals, c \in BOOLEAN}
    \cup {Binding("set", ObjectData_set(v), FALSE) : v \in PayloadVals}
    \cup {Binding("set_iterator", ObjectData_set_iterator(v), FALSE) : v \in PayloadVals}
    \cup {Binding("string", ObjectData_string(v), FALSE) : v \in PayloadVals}
    \cup {Binding("string_iterator", ObjectData_string_iterator(v), FALSE) : v \in PayloadVals}
    \cup {Binding("number", ObjectData_number(v), FALSE) : v \in PayloadVals}
    \cup {Binding("symbol", ObjectData_symbol(v), FALSE) : v \in PayloadVals}
    \cup {Binding("date", ObjectData_date(v), FALSE) : v \in PayloadVals}
    \cup {Binding("arguments", ObjectData_arguments(a), FALSE) : a \in ArgumentsValues}
    \cup {Binding("native_object", ObjectData_native_object(n), FALSE) : n \in NativeObjects}
    \cup {Binding("integer_indexed", ObjectData_integer_indexed(v), FALSE) : v \in PayloadVals}

\* a payload constructor is called and its ObjectData made a record
BindFrom(bindings, prototypes, max) ==
    /\ Len(heap) < max
    /\ \E b \in bindings, proto \in prototypes : Allocate(b.fn, proto, b.data, b.flag)
    /\ UNCHANGED <<fb, cb, borrow>>

Bind(max) == BindFrom(Bindings, JsPrototypes, max)

CallAccessor ==
    /\ Idle
    /\ \E o \in JsObjects, name \in Accessors :
          ret' = Call(name, o, None, Apply(name, heap[o]), heap[o])
    /\ UNCHANGED <<heap, bound_as, fb, cb, borrow>>

\* the caller writes the contents v through the reference it was handed
CallAccessorMutFrom(objects, names) ==
    /\ Idle
    /\ \E o \in objects, name \in names, v \in PayloadVals :
          LET r == ApplyMut(name, heap[o])
          IN  /\ heap' = IF is_some(r) THEN [heap EXCEPT ![o].data.kind.val = v] ELSE heap
              /\ ret' = Call(name, o, v, r, heap[o])
    /\ UNCHANGED <<bound_as, fb, cb, borrow>>

CallAccessorMut == CallAccessorMutFrom(JsObjects, MutAccessors)

AsFunctionMut_rebinds(objects, functions) ==
    /\ Idle
    /\ \E o \in objects, f \in functions :
          LET r == as_function_mut(heap[o])
          IN  /\ heap' = IF is_some(r)
                         THEN [heap EXCEPT ![o].data = ObjectData_function(f)]
                         ELSE heap
              /\ ret' = Call("as_function_mut", o, f, r, heap[o])
    /\ UNCHANGED <<bound_as, fb, cb, borrow>>

\* the caller writes the Function f through the reference it was handed
AsFunctionMutFrom(objects, functions) ==
    /\ Idle
    /\ \E o \in objects, f \in functions :
          LET r == as_function_mut(heap[o])
          IN  /\ heap' = IF is_some(r)
                         THEN [heap EXCEPT ![o].data.kind =
                                  ObjectKind("Function", f.tag, f.constructor, f.captures)]
                         ELSE heap
              /\ ret' = Call("as_function_mut", o, f, r, heap[o])
    /\ UNCHANGED <<bound_as, fb, cb, borrow>>

AsFunctionMut == AsFunctionMutFrom(JsObjects, Functions)

Is ==
    /\ Idle
    /\ \E o \in JsObjects, T \in NativeTypes :
          ret' = Call("is", o, [type |-> T, val |-> 0], is(heap[o], T), heap[o])
    /\ UNCHANGED <<heap, bound_as, fb, cb, borrow>>

DowncastRef ==
    /\ Idle
    /\ \E o \in JsObjects, T \in NativeTypes :
          ret' = Call("downcast_ref", o, [type |-> T, val |-> 0],
                     downcast_ref(heap[o], T), heap[o])
    /\ UNCHANGED <<heap, bound_as, fb, cb, borrow>>

\* the caller writes the value v of type T through the reference it was handed
DowncastMut ==
    /\ Idle
    /\ \E o \in JsObjects, T \in NativeTypes, v \in PayloadVals :
          LET r == downcast_mut(heap[o], T)
          IN  /\ heap' = IF is_some(r) THEN [heap EXCEPT ![o].data.kind.val = v] ELSE heap
              /\ ret' = Call("downcast_mut", o, [type |-> T, val |-> v], r, heap[o])
    /\ UNCHANGED <<bound_as, fb, cb, borrow>>

NextKinds ==
    \/ Bind(MaxKindObjects)
    \/ CallAccessor
    \/ CallAccessorMut
    \/ AsFunctionMut
    \/ Is
    \/ DowncastRef
    \/ DowncastMut
    \/ Return

SpecKinds == Init /\ [][NextKinds]_vars

----------------------------------------------------------------------------
(* The documented assignment of tables to kinds, as the claims state it. *)

\* the kinds whose table depends on no flag and no sub-variant
FlaglessKinds ==
    {"Array", "String", "IntegerIndexed", "Ordinary", "Map", "Set", "RegExp",
     "ArrayBuffer", "Date", "BigInt", "Boolean", "Number", "Symbol",
     "ArrayIterator", "MapIterator", "SetIterator", "StringIterator",
     "RegExpStringIterator", "ForInIterator", "Error", "Global", "NativeObject"}

DocumentedTable(variant) ==
    CASE variant = "Array" -> "ARRAY_EXOTIC_INTERNAL_METHODS"
      [] variant = "String" -> "STRING_EXOTIC_INTERNAL_METHODS"
      [] variant = "IntegerIndexed" -> "INTEGER_INDEXED_EXOTIC_INTERNAL_METHODS"
      [] OTHER -> "ORDINARY_INTERNAL_METHODS"

\* the kind each flagless payload constructor is the constructor of
ConstructorKind ==
    [array |-> "Array", string |-> "String", integer_indexed |-> "IntegerIndexed",
     ordinary |-> "Ordinary", map |-> "Map", set |-> "Set", reg_exp |-> "RegExp",
     array_buffer |-> "ArrayBuffer", date |-> "Date", big_int |-> "BigInt",
     boolean |-> "Boolean", number |-> "Number", symbol |-> "Symbol",
     array_iterator |-> "ArrayIterator", map_iterator |-> "MapIterator",
     set_iterator |-> "SetIterator", string_iterator |-> "StringIterator",
     reg_exp_string_iterator |-> "RegExpStringIterator",
     for_in_iterator |-> "ForInIterator", error |-> "Error", global |-> "Global",
     native_object |-> "NativeObject"]

\* the record the last call was made on, or made
Receiver == heap[ret.obj]

(* C5: the payload constructor of every kind whose table depends on no     *)
(* flag builds that kind and binds the documented table: the array exotic  *)
(* table for Array, the string exotic table for String, the                *)
(* integer-indexed exotic table for Integer-Indexed and the ordinary table *)
(* for each of the other nineteen.                                         *)
C5_FlaglessKindsBindDocumentedTable ==
    ret.op \in DOMAIN ConstructorKind =>
        /\ Receiver.data.kind.variant = ConstructorKind[ret.op]
        /\ Receiver.data.kind.variant \in FlaglessKinds
        /\ Receiver.data.internal_methods = DocumentedTable(Receiver.data.kind.variant)

\* a boxed String was just built with the string exotic table
C5_Witness ==
    /\ ret.op = "string"
    /\ Receiver.data.kind.variant = "String"
    /\ Receiver.data.internal_methods = "STRING_EXOTIC_INTERNAL_METHODS"

(* C6: a Function payload binds the constructor table when its             *)
(* constructibility flag is true and the function table when it is false;  *)
(* a Bound Function payload binds the bound-constructor exotic table when  *)
(* the constructor argument is true and the bound-function exotic table    *)
(* when it is false.                                                       *)
C6_ConstructibilityChoosesTable ==
    /\ ret.op = "function" =>
          /\ Receiver.data.kind.variant = "Function"
          /\ Receiver.data.internal_methods =
                IF bound_as[ret.obj] THEN "CONSTRUCTOR_INTERNAL_METHODS"
                                     ELSE "FUNCTION_INTERNAL_METHODS"
    /\ ret.op = "bound_function" =>
          /\ Receiver.data.kind.variant = "BoundFunction"
          /\ Receiver.data.internal_methods =
                IF bound_as[ret.obj] THEN "BOUND_CONSTRUCTOR_EXOTIC_INTERNAL_METHODS"
                                     ELSE "BOUND_FUNCTION_EXOTIC_INTERNAL_METHODS"

\* a Function payload with the flag set was just bound to the constructor table
C6_Witness ==
    /\ ret.op = "function"
    /\ bound_as[ret.obj]
    /\ Receiver.data.kind.flag
    /\ Receiver.data.internal_methods = "CONSTRUCTOR_INTERNAL_METHODS"

\* a Bound Function payload was just bound for a non-constructor
C6_WitnessBound ==
    /\ ret.op = "bound_function"
    /\ ~bound_as[ret.obj]
    /\ Receiver.data.internal_methods = "BOUND_FUNCTION_EXOTIC_INTERNAL_METHODS"

(* C7: an Unmapped Arguments payload binds the ordinary table and every    *)
(* other (Mapped) Arguments payload the arguments exotic table.            *)
C7_ArgumentsTable ==
    ret.op = "arguments" =>
        /\ Receiver.data.kind.variant = "Arguments"
        /\ Receiver.data.internal_methods =
              IF Receiver.data.kind.tag = "Unmapped"
              THEN "ORDINARY_INTERNAL_METHODS"
              ELSE "ARGUMENTS_EXOTIC_INTERNAL_METHODS"

\* an Unmapped Arguments payload was just bound to the ordinary table
C7_Witness ==
    /\ ret.op = "arguments"
    /\ Receiver.data.kind.tag = "Unmapped"
    /\ Receiver.data.internal_methods = "ORDINARY_INTERNAL_METHODS"

----------------------------------------------------------------------------
(* The kind-checked accessors and the host-object downcasts, as claimed. *)

\* the kind each predicate and accessor is named for
AccessorKind ==
    [is_array |-> "Array", as_array |-> "Array",
     is_array_iterator |-> "ArrayIterator", as_array_iterator |-> "ArrayIterator",
     as_array_iterator_mut |-> "ArrayIterator",
     is_array_buffer |-> "ArrayBuffer", as_array_buffer |-> "ArrayBuffer",
     as_array_buffer_mut |-> "ArrayBuffer",
     as_string_iterator_mut |-> "StringIterator",
     as_regexp_string_iterator_mut |-> "RegExpStringIterator",
     as_for_in_iterator |-> "ForInIterator", as_for_in_iterator_mut |-> "ForInIterator",
     is_map |-> "Map", as_map_ref |-> "Map", as_map_mut |-> "Map",
     is_map_iterator |-> "MapIterator", as_map_iterator_ref |-> "MapIterator",
     as_map_iterator_mut |-> "MapIterator",
     is_set |-> "Set", as_set_ref |-> "Set", as_set_mut |-> "Set",
     as_set_iterator_mut |-> "SetIterator",
     is_string |-> "String", as_string |-> "String",
     is_function |-> "Function", as_function |-> "Function",
     as_function_mut |-> "Function", as_bound_function |-> "BoundFunction",
     is_symbol |-> "Symbol", as_symbol |-> "Symbol",
     is_error |-> "Error", as_error |-> "Error",
     is_boolean |-> "Boolean", as_boolean |-> "Boolean",
     is_number |-> "Number", as_number |-> "Number",
     is_bigint |-> "BigInt", as_bigint |-> "BigInt",
     is_date |-> "Date", as_date |-> "Date",
     is_regexp |-> "RegExp", as_regexp |-> "RegExp",
     is_typed_array |-> "IntegerIndexed", as_typed_array |-> "IntegerIndexed",
     as_typed_array_mut |-> "IntegerIndexed",
     is_arguments |-> "Arguments", as_mapped_arguments |-> "Arguments",
     is_ordinary |-> "Ordinary",
     is_native_object |-> "NativeObject", as_native_object |-> "NativeObject"]

Predicates ==
    {"is_array", "is_array_iterator", "is_array_buffer", "is_map", "is_map_iterator",
     "is_set", "is_string", "is_function", "is_symbol", "is_error", "is_boolean",
     "is_number", "is_bigint", "is_date", "is_regexp", "is_typed_array",
     "is_arguments", "is_ordinary", "is_native_object"}

\* the last call was the predicate or accessor ret.op, and it answered as the
\* accessor of kind K answers: true / non-empty exactly on a record of kind K
AnswersForKind(K) ==
    IF ret.op \in Predicates
    THEN ret.val = (ret.pre.data.kind.variant = K)
    ELSE is_some(ret.val) = (ret.pre.data.kind.variant = K)

\* a mutable accessor leaves the variant and the table of its receiver alone
KeepsVariantAndTable ==
    /\ Receiver.data.kind.variant = ret.pre.data.kind.variant
    /\ Receiver.data.internal_methods = ret.pre.data.internal_methods

(* C8 as stated: every predicate and accessor, is_arguments and            *)
(* as_mapped_arguments included, answers true / non-empty exactly on the   *)
(* records whose payload variant is the kind it is named for.              *)
C8_AsStated ==
    ret.op \in DOMAIN AccessorKind => AnswersForKind(AccessorKind[ret.op])

(* C8 as amended: the same for every predicate and accessor but            *)
(* as_mapped_arguments, which is non-empty exactly on Mapped Arguments: on *)
(* an Unmapped Arguments record is_arguments is true and                   *)
(* as_mapped_arguments is empty.                                           *)
C8_KindCheckedAccessors ==
    ret.op \in DOMAIN AccessorKind =>
        /\ IF ret.op = "as_mapped_arguments"
           THEN is_some(ret.val) =
                   (/\ ret.pre.data.kind.variant = "Arguments"
                    /\ ret.pre.data.kind.tag = "Mapped")
           ELSE AnswersForKind(AccessorKind[ret.op])
        /\ KeepsVariantAndTable

\* as_mapped_arguments was empty on an Unmapped Arguments record, on which
\* is_arguments is true
C8_Witness ==
    /\ ret.op = "as_mapped_arguments"
    /\ ret.pre.data.kind.variant = "Arguments"
    /\ ret.pre.data.kind.tag = "Unmapped"
    /\ ret.val = None
    /\ is_arguments(Receiver)

(* C9: on a record built from a host value v of type T, is<T>() is true    *)
(* and downcast_ref<T>() / downcast_mut<T>() hand out v; for any other     *)
(* type U, and on a record of any other kind, is is false and both         *)
(* downcasts are empty; so is<T>() holds exactly when downcast_ref<T>() is *)
(* non-empty, exactly when downcast_mut<T>() is.                           *)
C9_HostDowncast ==
    /\ ret.op \in {"is", "downcast_ref", "downcast_mut"} =>
          LET same == /\ ret.pre.data.kind.variant = "NativeObject"
                      /\ ret.pre.data.kind.tag = ret.arg.type
              v == ret.pre.data.kind.val
          IN  /\ ret.op = "is" => ret.val = same
              /\ ret.op = "downcast_ref" => ret.val = IF same THEN Some(v) ELSE None
              /\ ret.op = "downcast_mut" =>
                    /\ ret.val = IF same THEN Some(v) ELSE None
                    /\ Receiver = IF same
                                  THEN [ret.pre EXCEPT !.data.kind.val = ret.arg.val]
                                  ELSE ret.pre
    /\ \A o \in JsObjects, T \in NativeTypes :
          /\ is(heap[o], T) = is_some(downcast_ref(heap[o], T))
          /\ is(heap[o], T) = is_some(downcast_mut(heap[o], T))

\* downcast_ref<T>() handed out the value of a host record of type T, which is
\* of no other type
C9_Witness ==
    /\ ret.op = "downcast_ref"
    /\ ret.pre.data.kind.variant = "NativeObject"
    /\ ret.val = Some(ret.pre.data.kind.val)
    /\ \E U \in NativeTypes \ {ret.arg.type} :
          /\ ~is(Receiver, U)
          /\ downcast_ref(Receiver, U) = None

----------------------------------------------------------------------------
(* The Context's standard objects, and the builders: FunctionBuilder and   *)
(* ConstructorBuilder make objects and rebind objects that exist already.  *)

\* StandardObjects: the StandardConstructor of Object and of Function, each a
\* constructor and a prototype made by JsObject::empty()
StandardObjects ==
    [object_object |-> [constructor |-> 1, prototype |-> 2],
     function_object |-> [constructor |-> 3, prototype |-> 4]]

\* JsObject::empty()
JsObject_empty == Object_default

\* FunctionBuilder { function, name, length }
FunctionBuilder(function, name, length) ==
    [function |-> function, name |-> name, length |-> length]

FunctionBuilder_native == FunctionBuilder(Some(Function("Native", FALSE, 0)), "", 0)

FunctionBuilder_closure == FunctionBuilder(Some(Function("Closure", FALSE, 0)), "", 0)

\* the match of constructor(yes) on a builder that still holds its function
FunctionBuilder_constructor(self, yes) ==
    [self EXCEPT !.function = Some([unwrap(self.function) EXCEPT !.constructor = yes])]

\* the name and length descriptor of build and build_function_prototype
FunctionProperty(value) == PropertyDescriptor(value, FALSE, FALSE, TRUE)

\* a build that leaves the new object without a "name" property
FunctionBuilder_build_unnamed(self) ==
    LET function == from_proto_and_data(Some(StandardObjects.function_object.prototype),
                                        ObjectData_function(unwrap(self.function)))
    IN  [self |-> [self EXCEPT !.function = None],
         ret |-> insert_property(function, "length",
                                 FunctionProperty(JsInteger(self.length))).self]

\* a build that clones the function and leaves it in the builder
FunctionBuilder_build_keeps_function(self) ==
    LET function == from_proto_and_data(Some(StandardObjects.function_object.prototype),
                                        ObjectData_function(unwrap(self.function)))
        named == insert_property(function, "name",
                                 FunctionProperty(JsString(self.name))).self
    IN  [self |-> self,
         ret |-> insert_property(named, "length",
                                 FunctionProperty(JsInteger(self.length))).self]

\* build(): the function is taken out of the builder and made an object
FunctionBuilder_build(self) ==
    LET function == from_proto_and_data(Some(StandardObjects.function_object.prototype),
                                        ObjectData_function(unwrap(self.function)))
        named == insert_property(function, "name",
                                 FunctionProperty(JsString(self.name))).self
    IN  [self |-> [self EXCEPT !.function = None],
         ret |-> insert_property(named, "length",
                                 FunctionProperty(JsInteger(self.length))).self]

build_function_prototype_keeps_table(self, object) ==
    LET bound == [object EXCEPT
                     !.data.kind = ObjectData_function(unwrap(self.function)).kind]
        linked == set_prototype(bound,
                                Some(StandardObjects.object_object.prototype)).self
        named == insert_property(linked, "name",
                                 FunctionProperty(JsString(self.name))).self
    IN  [self |-> [self EXCEPT !.function = None],
         object |-> insert_property(named, "length",
                                    FunctionProperty(JsInteger(self.length))).self]

build_function_prototype_remakes(self, object) ==
    [self |-> [self EXCEPT !.function = None],
     object |-> from_proto_and_data(Some(StandardObjects.object_object.prototype),
                                    ObjectData_function(unwrap(self.function)))]

\* build_function_prototype(object): the function is taken out of the builder
\* and object, which exists, is given it as its data
FunctionBuilder_build_function_prototype(self, object) ==
    LET bound == [object EXCEPT !.data = ObjectData_function(unwrap(self.function))]
        linked == set_prototype(bound,
                                Some(StandardObjects.object_object.prototype)).self
        named == insert_property(linked, "name",
                                 FunctionProperty(JsString(self.name))).self
    IN  [self |-> [self EXCEPT !.function = None],
         object |-> insert_property(named, "length",
                                    FunctionProperty(JsInteger(self.length))).self]

\* ConstructorBuilder { constructor_object, prototype, name, length, callable,
\* constructor, inherit, custom_prototype }, as new and with_standard_object
\* fill it in
ConstructorBuilder(constructor_object, prototype_object) ==
    [constructor_object |-> constructor_object, prototype |-> prototype_object,
     name |-> "", length |-> 0, callable |-> TRUE, constructor |-> TRUE,
     inherit |-> None, custom_prototype |-> None]

ConstructorBuilder_constructor(self, constructor) ==
    [self EXCEPT !.constructor = constructor]

\* a first block that gives the constructor object a writable "prototype"
ConstructorBuilder_build_constructor_writable(self, object) ==
    LET function == Function("Native", self.constructor, 0)
        bound == [object EXCEPT !.data = ObjectData_function(function)]
        sized == insert(bound, "length", FunctionProperty(JsInteger(self.length))).self
        named == insert(sized, "name", FunctionProperty(JsString(self.name))).self
        linked == IF is_some(self.custom_prototype)
                  THEN set_prototype(named, unwrap(self.custom_prototype)).self
                  ELSE set_prototype(named,
                                     Some(StandardObjects.function_object.prototype)).self
    IN  insert_property(linked, "prototype",
                        PropertyDescriptor(JsObjectValue(self.prototype),
                                           TRUE, FALSE, FALSE)).self

\* build(), first block: what becomes of the constructor object
ConstructorBuilder_build_constructor(self, object) ==
    LET function == Function("Native", self.constructor, 0)
        bound == [object EXCEPT !.data = ObjectData_function(function)]
        sized == insert(bound, "length", FunctionProperty(JsInteger(self.length))).self
        named == insert(sized, "name", FunctionProperty(JsString(self.name))).self
        linked == IF is_some(self.custom_prototype)
                  THEN set_prototype(named, unwrap(self.custom_prototype)).self
                  ELSE set_prototype(named,
                                     Some(StandardObjects.function_object.prototype)).self
    IN  insert_property(linked, "prototype",
                        PropertyDescriptor(JsObjectValue(self.prototype),
                                           FALSE, FALSE, FALSE)).self

\* a second block that links the prototype object to Object.prototype
\* whatever inherit() was given
ConstructorBuilder_build_prototype_default(self, object) ==
    LET owned == insert_property(object, "constructor",
                                 PropertyDescriptor(JsObjectValue(self.constructor_object),
                                                    TRUE, FALSE, TRUE)).self
    IN  set_prototype(owned, Some(StandardObjects.object_object.prototype)).self

\* build(), second block: what becomes of the prototype object
ConstructorBuilder_build_prototype(self, object) ==
    LET owned == insert_property(object, "constructor",
                                 PropertyDescriptor(JsObjectValue(self.constructor_object),
                                                    TRUE, FALSE, TRUE)).self
    IN  IF is_some(self.inherit)
        THEN set_prototype(owned, unwrap(self.inherit)).self
        ELSE set_prototype(owned, Some(StandardObjects.object_object.prototype)).self

\* a build that reads the two settings and leaves them in the builder
ConstructorBuilder_build_keeps_settings(self) == self

\* build(): both settings are taken out of the builder
ConstructorBuilder_build(self) ==
    [self EXCEPT !.inherit = None, !.custom_prototype = None]

----------------------------------------------------------------------------
(* SpecBuild: the standard objects exist; payloads are bound and made      *)
(* records, builders are made, set and built, and functions are written    *)
(* through as_function_mut.                                                *)

\* the records of the standard objects, as StandardObjects::default() makes them
StandardHeap == <<JsObject_empty, JsObject_empty, JsObject_empty, JsObject_empty>>

InitBuild ==
    /\ heap = StandardHeap
    /\ bound_as = <<FALSE, FALSE, FALSE, FALSE>>
    /\ fb = None
    /\ cb = None
    /\ ret = NoCall
    /\ borrow = <<>>

\* room for the records allocated beyond the standard objects
BuildLimit == Len(StandardHeap) + MaxBuildObjects

\* an access that JsObject::borrow (mut = FALSE) or JsObject::borrow_mut
\* (mut = TRUE) handed out on the record obj and that was not dropped yet
Access(obj, mut) == [obj |-> obj, mut |-> mut]

ReadersIn(accesses, o) ==
    Cardinality({i \in 1 .. Len(accesses) : accesses[i] = Access(o, FALSE)})

WritersIn(accesses, o) ==
    Cardinality({i \in 1 .. Len(accesses) : accesses[i] = Access(o, TRUE)})

\* JsObject::borrow hands out an access unless the record is mutably borrowed
can_borrow(o) == WritersIn(borrow, o) = 0

\* JsObject::borrow_mut hands out an access unless the record is borrowed
can_borrow_mut(o) == WritersIn(borrow, o) = 0 /\ ReadersIn(borrow, o) = 0

\* a panic (unwrap of None, unreachable!(), a refused borrow) ends the run
Panic(op) ==
    /\ ret' = Call("panic", 0, op, None, None)
    /\ UNCHANGED <<heap, bound_as, fb, cb, borrow>>


FnBuilderNative ==
    /\ Idle
    /\ fb' = Some(FunctionBuilder_native)
    /\ cb' = None
    /\ UNCHANGED <<heap, bound_as, ret, borrow>>

FnBuilderClosure ==
    /\ Idle
    /\ fb' = Some(FunctionBuilder_closure)
    /\ cb' = None
    /\ UNCHANGED <<heap, bound_as, ret, borrow>>

\* constructor(yes): unreachable!() once the function was taken; the call
\* record keeps the flag given
FnBuilderConstructor ==
    /\ Idle
    /\ is_some(fb)
    /\ IF is_some(unwrap(fb).function)
       THEN /\ \E yes \in BOOLEAN :
                  /\ fb' = Some(FunctionBuilder_constructor(unwrap(fb), yes))
                  /\ ret' = Call("FunctionBuilder::constructor", 0, yes, None, None)
            /\ UNCHANGED <<heap, bound_as, cb, borrow>>
       ELSE Panic("FunctionBuilder::constructor")

\* build(): take().unwrap() panics once the function was taken; the call
\* record keeps the builder as build() found it
FnBuilderBuild ==
    /\ Idle
    /\ is_some(fb)
    /\ IF is_some(unwrap(fb).function)
       THEN /\ Len(heap) < BuildLimit
            /\ LET r == FunctionBuilder_build(unwrap(fb))
               IN  /\ heap' = Append(heap, r.ret)
                   /\ bound_as' = Append(bound_as, unwrap(unwrap(fb).function).constructor)
                   /\ fb' = Some(r.self)
            /\ ret' = Call("FunctionBuilder::build", Len(heap) + 1, None, None, unwrap(fb))
            /\ UNCHANGED <<cb, borrow>>
       ELSE Panic("FunctionBuilder::build")

\* build_function_prototype(object), on a record made after the standard objects
FnBuilderBuildFunctionPrototype_unguarded ==
    /\ Idle
    /\ is_some(fb)
    /\ \E o \in JsObjects \ (1..Len(StandardHeap)) :
          IF ~is_some(unwrap(fb).function)
          THEN Panic("FunctionBuilder::build_function_prototype")
          ELSE LET r == FunctionBuilder_build_function_prototype(unwrap(fb), heap[o])
               IN  /\ heap' = [heap EXCEPT ![o] = r.object]
                   /\ bound_as' = [bound_as EXCEPT
                                      ![o] = unwrap(unwrap(fb).function).constructor]
                   /\ fb' = Some(r.self)
                   /\ ret' = Call("build_function_prototype", o, None, None, heap[o])
                   /\ UNCHANGED <<cb, borrow>>

\* object.borrow_mut() comes first and is held to the end; take().unwrap()
\* panics once the function was taken
FnBuilderBuildFunctionPrototype ==
    /\ Idle
    /\ is_some(fb)
    /\ \E o \in JsObjects \ (1..Len(StandardHeap)) :
          IF ~can_borrow_mut(o)
          THEN Panic("JsObject::borrow_mut")
          ELSE IF ~is_some(unwrap(fb).function)
          THEN Panic("FunctionBuilder::build_function_prototype")
          ELSE LET r == FunctionBuilder_build_function_prototype(unwrap(fb), heap[o])
               IN  /\ heap' = [heap EXCEPT ![o] = r.object]
                   /\ bound_as' = [bound_as EXCEPT
                                      ![o] = unwrap(unwrap(fb).function).constructor]
                   /\ fb' = Some(r.self)
                   /\ ret' = Call("build_function_prototype", o, None, None, heap[o])
                   /\ UNCHANGED <<cb, borrow>>

\* new(): the constructor object and the prototype are two fresh empty objects
CtorBuilderNew ==
    /\ Idle
    /\ Len(heap) + 2 <= BuildLimit
    /\ heap' = heap \o <<JsObject_empty, JsObject_empty>>
    /\ bound_as' = bound_as \o <<FALSE, FALSE>>
    /\ cb' = Some(ConstructorBuilder(Len(heap) + 1, Len(heap) + 2))
    /\ fb' = None
    /\ UNCHANGED <<ret, borrow>>

\* with_standard_object(context, object), for the Object builtin
CtorBuilderWithStandardObject ==
    /\ Idle
    /\ \E object \in {StandardObjects.object_object} :
          cb' = Some(ConstructorBuilder(object.constructor, object.prototype))
    /\ fb' = None
    /\ UNCHANGED <<heap, bound_as, ret, borrow>>

CtorBuilderConstructor ==
    /\ Idle
    /\ is_some(cb)
    /\ \E constructor \in BOOLEAN :
          cb' = Some(ConstructorBuilder_constructor(unwrap(cb), constructor))
    /\ UNCHANGED <<heap, bound_as, fb, ret, borrow>>

\* build(): the constructor object is borrowed mutably for the first block
\* and the prototype for the second; a refused borrow of the prototype
\* panics after the first block was done
CtorBuilderBuild ==
    /\ Idle
    /\ is_some(cb)
    /\ LET self == unwrap(cb)
           c == self.constructor_object
           p == self.prototype
       IN  IF ~can_borrow_mut(c)
           THEN Panic("JsObject::borrow_mut")
           ELSE IF ~can_borrow_mut(p)
           THEN /\ heap' = [heap EXCEPT
                               ![c] = ConstructorBuilder_build_constructor(self, heap[c])]
                /\ bound_as' = [bound_as EXCEPT ![c] = self.constructor]
                /\ cb' = Some([self EXCEPT !.custom_prototype = None])
                /\ ret' = Call("panic", 0, "JsObject::borrow_mut", None, None)
           ELSE /\ heap' = [heap EXCEPT
                               ![c] = ConstructorBuilder_build_constructor(self, heap[c]),
                               ![p] = ConstructorBuilder_build_prototype(self, heap[p])]
                /\ bound_as' = [bound_as EXCEPT ![c] = self.constructor]
                /\ cb' = Some(ConstructorBuilder_build(self))
                /\ ret' = Call("ConstructorBuilder::build", c, self, c, heap[c])
    /\ UNCHANGED <<fb, borrow>>

\* the payloads bound beside the builders: an empty Map and the native functions
BuildBindings ==
    {b \in Bindings : \/ b.fn = "map" /\ b.data.kind.val = 0
                      \/ b.fn = "function" /\ b.data.kind.tag = "Native"}

BindBuild == BindFrom(BuildBindings, {None}, BuildLimit)

\* the contents of a Map are written through as_map_mut
MapMutBuild == CallAccessorMutFrom({o \in JsObjects : is_map(heap[o])}, {"as_map_mut"})

\* a native function is written through as_function_mut
AsFunctionMutBuild ==
    AsFunctionMutFrom({o \in JsObjects : is_function(heap[o])},
                      {f \in Functions : f.tag = "Native"})

NextBuild ==
    \/ BindBuild
    \/ FnBuilderNative
    \/ FnBuilderClosure
    \/ FnBuilderConstructor
    \/ FnBuilderBuild
    \/ FnBuilderBuildFunctionPrototype
    \/ CtorBuilderNew
    \/ CtorBuilderWithStandardObject
    \/ CtorBuilderConstructor
    \/ CtorBuilderBuild
    \/ MapMutBuild
    \/ AsFunctionMutBuild
    \/ Return

SpecBuild == InitBuild /\ [][NextBuild]_vars

----------------------------------------------------------------------------
(* The table of every record, and what changes it. *)

\* the table ObjectData's constructors designate for a payload bound with
\* constructibility flag
DesignatedTable(kind, flag) ==
    CASE kind.variant = "Function" ->
            IF flag THEN "CONSTRUCTOR_INTERNAL_METHODS" ELSE "FUNCTION_INTERNAL_METHODS"
      [] kind.variant = "BoundFunction" ->
            IF flag THEN "BOUND_CONSTRUCTOR_EXOTIC_INTERNAL_METHODS"
                    ELSE "BOUND_FUNCTION_EXOTIC_INTERNAL_METHODS"
      [] kind.variant = "Arguments" ->
            IF kind.tag = "Unmapped" THEN "ORDINARY_INTERNAL_METHODS"
                                     ELSE "ARGUMENTS_EXOTIC_INTERNAL_METHODS"
      [] OTHER -> DocumentedTable(kind.variant)

(* C3: in every reachable state, after any sequence of payload             *)
(* constructors, builder operations and mutable accessors, the table of    *)
(* each record is the table designated for its payload variant and, for    *)
(* Function and Bound Function, for the constructibility given when the    *)
(* payload was bound.                                                      *)
C3_TableMatchesVariant ==
    \A o \in JsObjects :
        heap[o].data.internal_methods = DesignatedTable(heap[o].data.kind, bound_as[o])

\* a function bound as a constructor was written through as_function_mut and
\* is no constructor any more: its table is still the one it was bound with
C3_Witness ==
    /\ ret.op = "as_function_mut"
    /\ bound_as[ret.obj]
    /\ ~Receiver.data.kind.flag
    /\ Receiver.data.internal_methods = "CONSTRUCTOR_INTERNAL_METHODS"

VariantAndTable(object) ==
    <<object.data.kind.variant, object.data.internal_methods>>

\* C4 as stated: no step changes the payload variant or the table of a record
\* that exists
C4_AsStated ==
    [][\A o \in JsObjects : VariantAndTable(heap'[o]) = VariantAndTable(heap[o])]_vars

(* C4: the payload variant and the table of a record that exists change   *)
(* only when build_function_prototype or ConstructorBuilder::build is      *)
(* applied to that record, which then is a Function bound to the           *)
(* constructor table if the function is a constructor and to the function  *)
(* table if it is not; no other step changes either.                       *)
C4_OnlyBuildersRebind ==
    [][\A o \in JsObjects :
          VariantAndTable(heap'[o]) # VariantAndTable(heap[o]) =>
              /\ ret'.op \in {"build_function_prototype", "ConstructorBuilder::build"}
              /\ ret'.obj = o
              /\ heap'[o].data.kind.variant = "Function"
              /\ heap'[o].data.internal_methods =
                    IF heap'[o].data.kind.flag THEN "CONSTRUCTOR_INTERNAL_METHODS"
                                               ELSE "FUNCTION_INTERNAL_METHODS"]_vars

\* build_function_prototype was applied to a Map, which is a Function now
C4_Witness ==
    /\ ret.op = "build_function_prototype"
    /\ ret.pre.data.kind.variant = "Map"
    /\ ret.pre.data.internal_methods = "ORDINARY_INTERNAL_METHODS"
    /\ Receiver.data.kind.variant = "Function"
    /\ Receiver.data.internal_methods = "CONSTRUCTOR_INTERNAL_METHODS"

\* ConstructorBuilder::build was applied to an ordinary record, which is a
\* Function now
C4_WitnessConstructor ==
    /\ ret.op = "ConstructorBuilder::build"
    /\ ret.pre.data.kind.variant = "Ordinary"
    /\ Receiver.data.kind.variant = "Function"
    /\ Receiver.data.internal_methods = "FUNCTION_INTERNAL_METHODS"

----------------------------------------------------------------------------
(* SpecExt: beside the standard objects, the two records of a              *)
(* ConstructorBuilder are made, closed to extension, and given prototypes, *)
(* properties, functions and the builders' data.                           *)

\* the records made after the standard objects
ExtObjects == JsObjects \ (1 .. Len(StandardHeap))

\* the one entry the property methods are called with
ExtProperty == PropertyDescriptor(JsInteger(1), FALSE, FALSE, FALSE)

PreventExtensionsExt ==
    /\ \E o \in ExtObjects :
          Method("prevent_extensions", o, None, prevent_extensions(heap[o]))
    /\ UNCHANGED <<bound_as, fb, cb, borrow>>

SetPrototypeExt ==
    /\ \E o \in ExtObjects :
          \E new_prototype \in {None, Some(o)} :
             Method("set_prototype", o, new_prototype,
                    set_prototype(heap[o], new_prototype))
    /\ UNCHANGED <<bound_as, fb, cb, borrow>>

\* insert, insert_property and remove of the key "k1"
PropertiesExt ==
    /\ \E o \in ExtObjects :
          \/ Method("insert", o, [key |-> "k1", property |-> ExtProperty],
                    insert(heap[o], "k1", ExtProperty))
          \/ Method("insert_property", o, [key |-> "k1", property |-> ExtProperty],
                    insert_property(heap[o], "k1", ExtProperty))
          \/ Method("remove", o, [key |-> "k1"], remove(heap[o], "k1"))
    /\ UNCHANGED <<bound_as, fb, cb, borrow>>

NextExt ==
    \/ CtorBuilderNew
    \/ CtorBuilderBuild
    \/ FnBuilderNative
    \/ FnBuilderBuildFunctionPrototype
    \/ AsFunctionMutBuild
    \/ PreventExtensionsExt
    \/ SetPrototypeExt
    \/ PropertiesExt
    \/ Return

SpecExt == InitBuild /\ [][NextExt]_vars

(* C12: non-extensibility is irreversible: once the extensible flag of a   *)
(* record is false, it is false in every later state, whichever of         *)
(* set_prototype, insert, insert_property, remove, the mutable accessors   *)
(* and the builder operations is applied to the record.                    *)
C12_NonExtensibleForever ==
    [][\A o \in JsObjects : ~heap[o].extensible => ~heap'[o].extensible]_vars

\* ConstructorBuilder::build made a record that was closed to extension a
\* Function, and the record is still closed
C12_Witness ==
    /\ ret.op = "ConstructorBuilder::build"
    /\ ~ret.pre.extensible
    /\ ret.pre.data.kind.variant = "Ordinary"
    /\ Receiver.data.kind.variant = "Function"
    /\ ~Receiver.extensible

----------------------------------------------------------------------------
(* SpecBorrow: callers take and drop shared and exclusive accesses to the  *)
(* two records of a ConstructorBuilder while the builders, which borrow    *)
(* the records they write, are run.                                        *)

\* JsObject::borrow(): a shared access, or a panic
Borrow ==
    /\ Idle
    /\ Len(borrow) < MaxBorrows
    /\ \E o \in ExtObjects :
          IF can_borrow(o)
          THEN /\ borrow' = Append(borrow, Access(o, FALSE))
               /\ UNCHANGED <<heap, bound_as, fb, cb, ret>>
          ELSE Panic("JsObject::borrow")

\* JsObject::borrow_mut(): an exclusive access, or a panic
BorrowMut ==
    /\ Idle
    /\ Len(borrow) < MaxBorrows
    /\ \E o \in ExtObjects :
          IF can_borrow_mut(o)
          THEN /\ borrow' = Append(borrow, Access(o, TRUE))
               /\ UNCHANGED <<heap, bound_as, fb, cb, ret>>
          ELSE Panic("JsObject::borrow_mut")

\* an access is dropped
Release ==
    /\ Idle
    /\ \E i \in 1 .. Len(borrow) :
          borrow' = SubSeq(borrow, 1, i - 1) \o SubSeq(borrow, i + 1, Len(borrow))
    /\ UNCHANGED <<heap, bound_as, fb, cb, ret>>

NextBorrow ==
    \/ CtorBuilderNew
    \/ CtorBuilderBuild
    \/ FnBuilderNative
    \/ FnBuilderBuildFunctionPrototype
    \/ Borrow
    \/ BorrowMut
    \/ Release
    \/ Return

SpecBorrow == InitBuild /\ [][NextBorrow]_vars

\* one exclusive access and no shared one, or shared accesses only
Discipline(accesses, o) ==
    /\ WritersIn(accesses, o) <= 1
    /\ WritersIn(accesses, o) = 1 => ReadersIn(accesses, o) = 0

(* C14: per record, at every instant at most one exclusive access and no   *)
(* shared one is outstanding, or shared accesses and no exclusive one; an  *)
(* attempt to take an access that would break this panics and hands out   *)
(* no access, and a record is written only while no other access to it is  *)
(* outstanding.                                                            *)
C14_BorrowDiscipline ==
    [][/\ \A o \in 1 .. Len(heap') : Discipline(borrow', o)
       /\ \A o \in JsObjects :
             heap'[o] # heap[o] => WritersIn(borrow, o) = 0 /\ ReadersIn(borrow, o) = 0
       /\ ret'.op = "panic" => borrow' = borrow]_vars

\* ConstructorBuilder::build panicked on its constructor object, to which two
\* shared accesses are outstanding
C14_Witness ==
    /\ ret.op = "panic"
    /\ ret.arg = "JsObject::borrow_mut"
    /\ is_some(cb)
    /\ ReadersIn(borrow, unwrap(cb).constructor_object) = 2
    /\ heap[unwrap(cb).constructor_object].data.kind.variant = "Ordinary"

----------------------------------------------------------------------------
(* SpecTrace: the records of a ConstructorBuilder are built, Maps that     *)
(* hold a record are bound, prototypes are set, and the collector marks    *)
(* from a root through the derived Trace of Object.                        *)

\* derive(Trace) for ObjectKind: the payload of the variant is traced; contents
\* n >= 1 are contents that hold the record n
trace_kind(kind) == IF kind.val >= 1 THEN {kind.val} ELSE {}

\* derive(Trace) for ObjectData: kind, and internal_methods, a &'static
\* reference that holds no record
trace_data(data) == trace_kind(data.kind)

\* the Trace of PropertyMap: the values of the entries
trace_properties(map) ==
    {unwrap(map[k]).value.n :
        k \in {key \in PropertyKeys :
                  is_some(map[key]) /\ unwrap(map[key]).value.t = "Object"}}

\* the Trace of JsPrototype = Option<JsObject>
trace_prototype(link) == IF is_some(link) THEN {unwrap(link)} ELSE {}

trace_skips_prototype(self) ==
    trace_data(self.data) \cup trace_properties(self.properties)

\* derive(Trace) for Object: data, properties, prototype and extensible, a bool
trace(self) ==
    trace_data(self.data) \cup trace_properties(self.properties)
        \cup trace_prototype(self.prototype)

\* the mark phase: trace is called on every record it reaches
RECURSIVE Mark(_)
Mark(marked) ==
    LET found == marked \cup (UNION {trace(heap[o]) : o \in marked} \cap JsObjects)
    IN  IF found = marked THEN marked ELSE Mark(found)

\* Maps that hold nothing or a record
BindTrace == BindFrom({b \in Bindings : b.fn = "map"}, {None}, BuildLimit)

Collect ==
    /\ Idle
    /\ \E root \in JsObjects :
          ret' = Call("trace", root, None, Mark({root}), heap[root])
    /\ UNCHANGED <<heap, bound_as, fb, cb, borrow>>

NextTrace ==
    \/ CtorBuilderNew
    \/ CtorBuilderBuild
    \/ BindTrace
    \/ SetPrototypeExt
    \/ Collect
    \/ Return

SpecTrace == InitBuild /\ [][NextTrace]_vars

\* the record o refers to the record q: by its prototype link, by the value of
\* a property or by the contents of its payload
Refers(o, q) ==
    \/ heap[o].prototype = Some(q)
    \/ \E k \in PropertyKeys :
          /\ heap[o].properties[k] # None
          /\ heap[o].properties[k][1].value = JsObjectValue(q)
    \/ heap[o].data.kind.val = q

RECURSIVE ReachableIn(_, _)
ReachableIn(n, set) ==
    IF n = 0
    THEN set
    ELSE ReachableIn(n - 1, set \cup {q \in JsObjects : \E o \in set : Refers(o, q)})

(* C15: the trace of a record is exhaustive: it visits the payload         *)
(* contents, the prototype link and the property values, so every record   *)
(* reachable from a root through any chain of prototype links, property    *)
(* values and payload-owned references, cycles included, is marked.        *)
C15_TraceExhaustive ==
    ret.op = "trace" => ret.val = ReachableIn(Len(heap), {ret.obj})

\* marking from a built constructor went round the cycle constructor.prototype
\* <-> prototype.constructor and up both prototype links
C15_Witness ==
    /\ ret.op = "trace"
    /\ is_some(cb)
    /\ ret.obj = unwrap(cb).constructor_object
    /\ Refers(ret.obj, unwrap(cb).prototype)
    /\ Refers(unwrap(cb).prototype, ret.obj)
    /\ {ret.obj, unwrap(cb).prototype, StandardObjects.object_object.prototype,
        StandardObjects.function_object.prototype} \subseteq ret.val

\* marking from a Map reached the record its contents hold
C15_WitnessPayload ==
    /\ ret.op = "trace"
    /\ heap[ret.obj].data.kind.variant = "Map"
    /\ heap[ret.obj].data.kind.val \in ret.val \ {ret.obj}

----------------------------------------------------------------------------
(* SpecClosure: closures are made by closure_with_captures for a capture   *)
(* type C and called with the Captures kept beside them, which are of type *)
(* C unless the Function was written through as_function_mut.              *)

\* JsResult<JsValue>
Ok(val) == [ok |-> TRUE, val |-> val, error |-> ""]

Err(error) == [ok |-> FALSE, val |-> 0, error |-> error]

\* the functions F of the caller: one returns what it finds captured, one its
\* argument, one fails
UserFunctions == {"captured", "argument", "fail"}

user_function(F, args, captures) ==
    CASE F = "captured" -> Ok(captures)
      [] F = "argument" -> Ok(args)
      [] OTHER -> Err("Error: user")

\* closure_with_captures::<F, C>(context, function, captures)
FunctionBuilder_closure_with_captures(F, C, captures) ==
    FunctionBuilder(Some([tag |-> "Closure", constructor |-> FALSE,
                          captures |-> [type |-> C, val |-> captures],
                          function |-> [F |-> F, C |-> C]]),
                    "", 0)

\* context.construct_type_error("cannot downcast `Captures` to given type");
\* the backquotes of the message are written as quotes here
construct_type_error_downcast ==
    Err("TypeError: cannot downcast 'Captures' to given type")

closure_call_unchecked(function, args, captures) ==
    [invoked |-> TRUE, result |-> user_function(function.F, args, captures.val)]

\* the boxed closure of closure_with_captures, called with args and captures
closure_call(function, args, captures) ==
    IF Any_is(captures.type, function.C)
    THEN [invoked |-> TRUE, result |-> user_function(function.F, args, captures.val)]
    ELSE [invoked |-> FALSE, result |-> construct_type_error_downcast]

FnBuilderClosureWithCaptures ==
    /\ Idle
    /\ \E F \in UserFunctions, C \in NativeTypes, captures \in PayloadVals :
          fb' = Some(FunctionBuilder_closure_with_captures(F, C, captures))
    /\ cb' = None
    /\ UNCHANGED <<heap, bound_as, ret, borrow>>

\* the closure is called with an argument and with Captures of some type
CallClosure ==
    /\ Idle
    /\ is_some(fb)
    /\ is_some(unwrap(fb).function)
    /\ \E args \in PayloadVals, captures \in NativeObjects :
          LET function == unwrap(unwrap(fb).function)
          IN  ret' = Call("closure", 0, [args |-> args, captures |-> captures],
                          closure_call(function.function, args, captures), function)
    /\ UNCHANGED <<heap, bound_as, fb, cb, borrow>>

NextClosure ==
    \/ FnBuilderClosureWithCaptures
    \/ FnBuilderConstructor
    \/ CallClosure
    \/ Return

SpecClosure == Init /\ [][NextClosure]_vars

(* C16: when a closure built by closure_with_captures is called and its    *)
(* captured state cannot be downcast to the declared capture type C, the   *)
(* call returns the type error "cannot downcast 'Captures' to given type"  *)
(* and the user function is not invoked; when the downcast succeeds the    *)
(* user function is invoked with the captured state and its result is      *)
(* returned.                                                               *)
C16_ClosureDowncast ==
    ret.op = "closure" =>
        IF ret.arg.captures.type = ret.pre.function.C
        THEN /\ ret.val.invoked
             /\ ret.val.result =
                   user_function(ret.pre.function.F, ret.arg.args, ret.arg.captures.val)
        ELSE /\ ~ret.val.invoked
             /\ ret.val.result.ok = FALSE
             /\ ret.val.result.error =
                   "TypeError: cannot downcast 'Captures' to given type"

\* a closure made for the capture type T was called with Captures of type U
\* and returned the type error
C16_Witness ==
    /\ ret.op = "closure"
    /\ ret.pre.function.C = "T"
    /\ ret.arg.captures.type = "U"
    /\ ~ret.val.invoked
    /\ ~ret.val.result.ok

\* a closure was called with the Captures it was made with and returned what
\* its user function found in them
C16_WitnessInvoked ==
    /\ ret.op = "closure"
    /\ ret.pre.function.F = "captured"
    /\ ret.arg.captures = ret.pre.captures
    /\ ret.val.invoked
    /\ ret.val.result = Ok(ret.arg.captures.val)

----------------------------------------------------------------------------
(* SpecDisplay: payloads of every kind are bound, functions are written    *)
(* through as_function_mut, and the kind of a record is displayed.         *)

Display_iterator_as_array(kind) ==
    CASE kind.variant = "Array" -> "Array"
      [] kind.variant = "ArrayIterator" -> "Array"
      [] kind.variant = "ArrayBuffer" -> "ArrayBuffer"
      [] kind.variant = "ForInIterator" -> "ForInIterator"
      [] kind.variant = "Function" -> "Function"
      [] kind.variant = "BoundFunction" -> "BoundFunction"
      [] kind.variant = "RegExp" -> "RegExp"
      [] kind.variant = "RegExpStringIterator" -> "RegExpStringIterator"
      [] kind.variant = "Map" -> "Map"
      [] kind.variant = "MapIterator" -> "MapIterator"
      [] kind.variant = "Set" -> "Set"
      [] kind.variant = "SetIterator" -> "SetIterator"
      [] kind.variant = "String" -> "String"
      [] kind.variant = "StringIterator" -> "StringIterator"
      [] kind.variant = "Symbol" -> "Symbol"
      [] kind.variant = "Error" -> "Error"
      [] kind.variant = "Ordinary" -> "Ordinary"
      [] kind.variant = "Boolean" -> "Boolean"
      [] kind.variant = "Number" -> "Number"
      [] kind.variant = "BigInt" -> "BigInt"
      [] kind.variant = "Date" -> "Date"
      [] kind.variant = "Global" -> "Global"
      [] kind.variant = "Arguments" -> "Arguments"
      [] kind.variant = "NativeObject" -> "NativeObject"
      [] kind.variant = "IntegerIndexed" -> "TypedArray"

\* impl Display for ObjectKind
Display(kind) ==
    CASE kind.variant = "Array" -> "Array"
      [] kind.variant = "ArrayIterator" -> "ArrayIterator"
      [] kind.variant = "ArrayBuffer" -> "ArrayBuffer"
      [] kind.variant = "ForInIterator" -> "ForInIterator"
      [] kind.variant = "Function" -> "Function"
      [] kind.variant = "BoundFunction" -> "BoundFunction"
      [] kind.variant = "RegExp" -> "RegExp"
      [] kind.variant = "RegExpStringIterator" -> "RegExpStringIterator"
      [] kind.variant = "Map" -> "Map"
      [] kind.variant = "MapIterator" -> "MapIterator"
      [] kind.variant = "Set" -> "Set"
      [] kind.variant = "SetIterator" -> "SetIterator"
      [] kind.variant = "String" -> "String"
      [] kind.variant = "StringIterator" -> "StringIterator"
      [] kind.variant = "Symbol" -> "Symbol"
      [] kind.variant = "Error" -> "Error"
      [] kind.variant = "Ordinary" -> "Ordinary"
      [] kind.variant = "Boolean" -> "Boolean"
      [] kind.variant = "Number" -> "Number"
      [] kind.variant = "BigInt" -> "BigInt"
      [] kind.variant = "Date" -> "Date"
      [] kind.variant = "Global" -> "Global"
      [] kind.variant = "Arguments" -> "Arguments"
      [] kind.variant = "NativeObject" -> "NativeObject"
      [] kind.variant = "IntegerIndexed" -> "TypedArray"

DisplayKind ==
    /\ Idle
    /\ \E o \in JsObjects :
          ret' = Call("Display", o, None, Display(heap[o].data.kind), heap[o])
    /\ UNCHANGED <<heap, bound_as, fb, cb, borrow>>

NextDisplay ==
    \/ Bind(MaxKindObjects)
    \/ AsFunctionMut
    \/ DisplayKind
    \/ Return

SpecDisplay == Init /\ [][NextDisplay]_vars

\* the label documented for a kind: its name, but "TypedArray" for
\* Integer-Indexed
DocumentedLabel(variant) ==
    IF variant = "IntegerIndexed" THEN "TypedArray" ELSE variant

\* the payloads the constructors make, of all 25 kinds
BoundKinds == {b.data.kind : b \in Bindings}

(* C17: the display label is a total function of the kind: every kind maps *)
(* to its one documented label (Array to "Array", Integer-Indexed to       *)
(* "TypedArray", Error to "Error", ...), whatever the payload contents and *)
(* the bound table, and two different kinds never share a label, so the    *)
(* kind is recovered from the label.                                       *)
C17_DisplayLabel ==
    ret.op = "Display" =>
        /\ ret.val = DocumentedLabel(heap[ret.obj].data.kind.variant)
        /\ \A kind \in BoundKinds :
              (Display(kind) = ret.val) <=>
                  (kind.variant = heap[ret.obj].data.kind.variant)
        /\ Cardinality({Display(kind) : kind \in BoundKinds}) = 25
        /\ Cardinality({kind.variant : kind \in BoundKinds}) = 25

\* an Integer-Indexed record was displayed as "TypedArray"
C17_Witness ==
    /\ ret.op = "Display"
    /\ heap[ret.obj].data.kind.variant = "IntegerIndexed"
    /\ ret.val = "TypedArray"

\* a function written through as_function_mut, whose flag is no more the one
\* its table was chosen by, is displayed as "Function"
C17_WitnessTable ==
    /\ ret.op = "Display"
    /\ heap[ret.obj].data.kind.variant = "Function"
    /\ heap[ret.obj].data.kind.flag # bound_as[ret.obj]
    /\ ret.val = "Function"

----------------------------------------------------------------------------
(* SpecCtor: a ConstructorBuilder is made by new(), its settings are       *)
(* given in any order and any number of times, and it is built, possibly   *)
(* more than once.  The call record of build keeps, as its argument, the   *)
(* builder as it stood when build() was entered.                           *)

ConstructorBuilder_name(self, name) == [self EXCEPT !.name = name]

\* callable(callable) stores the flag
ConstructorBuilder_callable(self, callable) == [self EXCEPT !.callable = callable]

\* inherit(prototype): Some(prototype.into()), where the prototype may be none
ConstructorBuilder_inherit(self, proto) == [self EXCEPT !.inherit = Some(proto)]

ConstructorBuilder_custom_prototype(self, proto) ==
    [self EXCEPT !.custom_prototype = Some(proto)]

\* the names given to name(): never the empty string
CtorNames == {"Person"}

\* the prototypes given to inherit() and custom_prototype(): none, or the
\* Object constructor
CtorPrototypes == {None, Some(StandardObjects.object_object.constructor)}

CtorBuilderName ==
    /\ Idle
    /\ is_some(cb)
    /\ \E name \in CtorNames : cb' = Some(ConstructorBuilder_name(unwrap(cb), name))
    /\ UNCHANGED <<heap, bound_as, fb, ret, borrow>>

CtorBuilderCallable ==
    /\ Idle
    /\ is_some(cb)
    /\ \E callable \in BOOLEAN :
          cb' = Some(ConstructorBuilder_callable(unwrap(cb), callable))
    /\ UNCHANGED <<heap, bound_as, fb, ret, borrow>>

CtorBuilderInherit ==
    /\ Idle
    /\ is_some(cb)
    /\ \E proto \in CtorPrototypes :
          cb' = Some(ConstructorBuilder_inherit(unwrap(cb), proto))
    /\ UNCHANGED <<heap, bound_as, fb, ret, borrow>>

CtorBuilderCustomPrototype ==
    /\ Idle
    /\ is_some(cb)
    /\ \E proto \in CtorPrototypes :
          cb' = Some(ConstructorBuilder_custom_prototype(unwrap(cb), proto))
    /\ UNCHANGED <<heap, bound_as, fb, ret, borrow>>

NextCtor ==
    \/ CtorBuilderNew
    \/ CtorBuilderName
    \/ CtorBuilderCallable
    \/ CtorBuilderInherit
    \/ CtorBuilderCustomPrototype
    \/ CtorBuilderBuild
    \/ Return

SpecCtor == InitBuild /\ [][NextCtor]_vars

\* build() has returned; ret.arg is the builder as build() found it
Built == ret.op = "ConstructorBuilder::build"

C18_WitnessDefaults ==
    /\ Built
    /\ ret.arg.inherit = None
    /\ ret.arg.custom_prototype = None
    /\ prototype(heap[ret.arg.prototype])
          = Some(StandardObjects.object_object.prototype)
    /\ prototype(heap[ret.arg.constructor_object])
          = Some(StandardObjects.function_object.prototype)

\* the value of the own data property key of a record
OwnValue(object, key) == unwrap(properties(object)[key]).value

\* C19: when name() is never called, the built constructor object's "name"
\* property has the value "[object]".  Every name given to name() is in
\* CtorNames, so a builder whose name is outside CtorNames was never named.
C19_AsStated ==
    (Built /\ ret.arg.name \notin CtorNames)
        => OwnValue(heap[ret.obj], "name") = JsString("[object]")

\* C19, as the code has it: new() sets the name to JsString::default(), so
\* the constructor built by a builder that was never named is named ""
C19_DefaultNameIsEmpty ==
    (Built /\ ret.arg.name \notin CtorNames)
        => OwnValue(heap[ret.obj], "name") = JsString("")

C19_Witness ==
    /\ Built
    /\ ret.arg.name \notin CtorNames
    /\ OwnValue(heap[ret.obj], "name") = JsString("")

\* C20: a constructor built after callable(false) differs from one built
\* after callable(true): the two records build() leaves for the
\* constructor object are not the same.
C20_AsStated ==
    (Built /\ ~ret.arg.callable)
        => heap[ret.obj]
              # ConstructorBuilder_build_constructor(
                    ConstructorBuilder_callable(ret.arg, TRUE), ret.pre)

\* C20, as the code has it: build() never reads the callable flag, so
\* every built constructor is a function record, the same one that the
\* opposite flag gives
C20_CallableIgnored ==
    Built =>
        /\ is_function(heap[ret.obj])
        /\ heap[ret.obj]
              = ConstructorBuilder_build_constructor(
                    ConstructorBuilder_callable(ret.arg, ~ret.arg.callable), ret.pre)

C20_Witness ==
    /\ Built
    /\ ~ret.arg.callable
    /\ is_function(heap[ret.obj])

----------------------------------------------------------------------------
(* SpecFn: a FunctionBuilder is made by native() or closure(), its name,   *)
(* length and constructor flag are given in any order and any number of    *)
(* times, and build() or build_function_prototype() is called on it, also  *)
(* after the function was taken.  Every call leaves a call record.         *)

FunctionBuilder_name(self, name) == [self EXCEPT !.name = name]

FunctionBuilder_length(self, length) == [self EXCEPT !.length = length]

\* the names given to name() and the lengths given to length(): the
\* defaults are not among them
FnNames == {"f"}

FnLengths == {1}

FnBuilderName ==
    /\ Idle
    /\ is_some(fb)
    /\ \E name \in FnNames :
          /\ fb' = Some(FunctionBuilder_name(unwrap(fb), name))
          /\ ret' = Call("FunctionBuilder::name", 0, name, None, None)
    /\ UNCHANGED <<heap, bound_as, cb, borrow>>

FnBuilderLength ==
    /\ Idle
    /\ is_some(fb)
    /\ \E length \in FnLengths :
          /\ fb' = Some(FunctionBuilder_length(unwrap(fb), length))
          /\ ret' = Call("FunctionBuilder::length", 0, length, None, None)
    /\ UNCHANGED <<heap, bound_as, cb, borrow>>

NextFn ==
    \/ FnBuilderNative
    \/ FnBuilderClosure
    \/ FnBuilderName
    \/ FnBuilderLength
    \/ FnBuilderConstructor
    \/ FnBuilderBuild
    \/ FnBuilderBuildFunctionPrototype
    \/ Return

SpecFn == InitBuild /\ [][NextFn]_vars

\* FunctionBuilder::build has returned; ret.obj is the object it returned
\* and ret.pre the builder as build() found it
FnBuilt == ret.op = "FunctionBuilder::build"

\* C21: FunctionBuilder::build returns a new object of kind Function whose
\* prototype link is Function.prototype, whose own properties are exactly
\* "name" and "length", holding the builder's name and length (which native
\* and closure set to "" and 0), both non-writable, non-enumerable and
\* configurable, and whose table is the constructor table iff the builder's
\* function is flagged a constructor (which native and closure set to false).
C21_BuiltFunction ==
    /\ \A made \in {FunctionBuilder_native, FunctionBuilder_closure} :
          /\ made.name = ""
          /\ made.length = 0
          /\ ~is_constructor(unwrap(made.function))
    /\ FnBuilt =>
          LET self == ret.pre
              function == heap[ret.obj]
          IN  /\ ret.obj = Len(heap)
              /\ is_function(function)
              /\ prototype(function) = Some(StandardObjects.function_object.prototype)
              /\ properties(function)["name"]
                    = Some(PropertyDescriptor(JsString(self.name), FALSE, FALSE, TRUE))
              /\ properties(function)["length"]
                    = Some(PropertyDescriptor(JsInteger(self.length), FALSE, FALSE, TRUE))
              /\ \A k \in PropertyKeys \ {"name", "length"} :
                    properties(function)[k] = None
              /\ function.data.internal_methods
                    = IF is_constructor(unwrap(self.function))
                      THEN "CONSTRUCTOR_INTERNAL_METHODS"
                      ELSE "FUNCTION_INTERNAL_METHODS"

\* a build after name("f"), length(1) and constructor(true)
C21_Witness ==
    /\ FnBuilt
    /\ ret.pre.name \in FnNames
    /\ ret.pre.length \in FnLengths
    /\ is_constructor(unwrap(ret.pre.function))
    /\ heap[ret.obj].data.internal_methods = "CONSTRUCTOR_INTERNAL_METHODS"

\* a build of a builder that was given nothing
C21_WitnessDefaults ==
    /\ FnBuilt
    /\ ret.pre = FunctionBuilder_native
    /\ OwnValue(heap[ret.obj], "name") = JsString("")
    /\ OwnValue(heap[ret.obj], "length") = JsInteger(0)
    /\ heap[ret.obj].data.internal_methods = "FUNCTION_INTERNAL_METHODS"

\* the builder's function was taken by build() or build_function_prototype()
Spent(self) == ~is_some(self.function)

\* the panic sites of a FunctionBuilder whose function was taken
SpentPanics ==
    {"FunctionBuilder::build", "FunctionBuilder::build_function_prototype",
     "FunctionBuilder::constructor"}

\* a step of one of the three calls that need the function
NeedsFunction ==
    FnBuilderBuild \/ FnBuilderBuildFunctionPrototype \/ FnBuilderConstructor

\* C23: a FunctionBuilder can be built only once.  A build or
\* build_function_prototype that returns found the function in the builder
\* and leaves the builder without it; on a builder without its function
\* every call of build, build_function_prototype and constructor panics,
\* and nothing else panics; while the builder has its function no call
\* panics, and name(), length() and constructor() each store what they were
\* given and leave the other settings as they were, so that the last
\* setting of each is the one a build finds.
C23_BuiltOnce ==
    [][ is_some(fb) =>
          LET self == unwrap(fb)
          IN  /\ (ret.op = "" /\ ret'.op \in {"FunctionBuilder::build",
                                              "build_function_prototype"})
                    => /\ ~Spent(self)
                       /\ fb' = Some([self EXCEPT !.function = None])
              /\ (Spent(self) /\ NeedsFunction)
                    => /\ ret'.op = "panic"
                       /\ ret'.arg \in SpentPanics
              /\ (ret.op = "" /\ ret'.op = "panic") => Spent(self)
              /\ (ret.op = "" /\ ret'.op = "FunctionBuilder::name")
                    => fb' = Some([self EXCEPT !.name = ret'.arg])
              /\ (ret.op = "" /\ ret'.op = "FunctionBuilder::length")
                    => fb' = Some([self EXCEPT !.length = ret'.arg])
              /\ (ret.op = "" /\ ret'.op = "FunctionBuilder::constructor")
                    => /\ ~Spent(self)
                       /\ fb' = Some([self EXCEPT !.function =
                                         Some([unwrap(self.function) EXCEPT
                                                  !.constructor = ret'.arg])])
              /\ (fb' # fb /\ ret'.op = ret.op)
                    => fb' \in {Some(FunctionBuilder_native),
                                Some(FunctionBuilder_closure)}
      ]_vars

\* constructor() panicked on a builder that was built after its name,
\* length and constructor flag were given
C23_Witness ==
    /\ ret.op = "panic"
    /\ ret.arg = "FunctionBuilder::constructor"
    /\ is_some(fb)
    /\ Spent(unwrap(fb))
    /\ unwrap(fb).name \in FnNames
    /\ unwrap(fb).length \in FnLengths
    /\ \E o \in JsObjects :
          /\ is_function(heap[o])
          /\ heap[o].data.internal_methods = "CONSTRUCTOR_INTERNAL_METHODS"

\* a second build() panicked
C23_WitnessBuild ==
    /\ ret.op = "panic"
    /\ ret.arg = "FunctionBuilder::build"
    /\ is_some(fb)
    /\ Spent(unwrap(fb))

\* build_function_prototype() panicked after a build
C23_WitnessBuildFunctionPrototype ==
    /\ ret.op = "panic"
    /\ ret.arg = "FunctionBuilder::build_function_prototype"
    /\ is_some(fb)
    /\ Spent(unwrap(fb))

----------------------------------------------------------------------------
(* The cross references that ConstructorBuilder::build leaves, checked in  *)
(* SpecBuild, where builders are also made over the standard objects and   *)
(* the constructor flag is set both ways.                                  *)

\* C22: after ConstructorBuilder::build the constructor object is of kind
\* Function, with the constructor table iff the builder's constructor flag
\* is true (new and with_standard_object set it true); its own property
\* "prototype" holds the prototype object and is non-writable,
\* non-enumerable and non-configurable; the prototype object's own property
\* "constructor" holds the constructor object and is writable,
\* non-enumerable and configurable; and build returns the constructor object.
C22_CrossReferences ==
    /\ ConstructorBuilder(1, 2).constructor
    /\ Built =>
          LET self == ret.arg
              constructor == heap[self.constructor_object]
          IN  /\ ret.val = self.constructor_object
              /\ is_function(constructor)
              /\ constructor.data.internal_methods
                    = IF self.constructor THEN "CONSTRUCTOR_INTERNAL_METHODS"
                                          ELSE "FUNCTION_INTERNAL_METHODS"
              /\ properties(constructor)["prototype"]
                    = Some(PropertyDescriptor(JsObjectValue(self.prototype),
                                              FALSE, FALSE, FALSE))
              /\ properties(heap[self.prototype])["constructor"]
                    = Some(PropertyDescriptor(JsObjectValue(self.constructor_object),
                                              TRUE, FALSE, TRUE))

\* a build with the constructor flag set to false, on two fresh objects
C22_Witness ==
    /\ Built
    /\ ~ret.arg.constructor
    /\ ret.arg.constructor_object > Len(StandardHeap)
    /\ heap[ret.val].data.internal_methods = "FUNCTION_INTERNAL_METHODS"
    /\ OwnValue(heap[ret.val], "prototype") = JsObjectValue(ret.arg.prototype)
    /\ OwnValue(heap[ret.arg.prototype], "constructor") = JsObjectValue(ret.val)

\* a build over the standard Object constructor and Object.prototype, with
\* the flag as with_standard_object set it
C22_WitnessStandard ==
    /\ Built
    /\ ret.arg.constructor
    /\ ret.val = StandardObjects.object_object.constructor
    /\ heap[ret.val].data.internal_methods = "CONSTRUCTOR_INTERNAL_METHODS"
    /\ OwnValue(heap[StandardObjects.object_object.prototype], "constructor")
          = JsObjectValue(ret.val)

----------------------------------------------------------------------------
(* The settings that ConstructorBuilder::build consumes, checked in        *)
(* SpecCtor, where a builder is set, built, set again and built again.     *)

\* C24: ConstructorBuilder::build consumes the inherit and custom_prototype
\* settings.  A build leaves the builder without either setting; a setting
\* comes into the builder only by a call of inherit() or custom_prototype();
\* and a build that finds no setting links the constructor object to
\* Function.prototype and the prototype object to Object.prototype, whatever
\* links an earlier build had set on these (extensible) objects.
C24_BuildConsumesSettings ==
    [][ is_some(cb) =>
          LET self == unwrap(cb)
              c == self.constructor_object
              p == self.prototype
          IN  /\ (ret.op = "" /\ ret'.op = "ConstructorBuilder::build")
                    => /\ cb' = Some([self EXCEPT !.inherit = None,
                                                  !.custom_prototype = None])
                       /\ heap[c].extensible /\ heap[p].extensible
                       /\ self.custom_prototype = None
                             => prototype(heap'[c])
                                   = Some(StandardObjects.function_object.prototype)
                       /\ self.inherit = None
                             => prototype(heap'[p])
                                   = Some(StandardObjects.object_object.prototype)
              /\ (ret'.op = ret.op /\ is_some(cb'))
                    => /\ unwrap(cb').inherit # self.inherit
                             => /\ is_some(unwrap(cb').inherit)
                                /\ cb' = Some(ConstructorBuilder_inherit(
                                                 self, unwrap(unwrap(cb').inherit)))
                       /\ unwrap(cb').custom_prototype # self.custom_prototype
                             => /\ is_some(unwrap(cb').custom_prototype)
                                /\ cb' = Some(ConstructorBuilder_custom_prototype(
                                                 self,
                                                 unwrap(unwrap(cb').custom_prototype)))
      ]_vars

\* a second build, with no setting, of a constructor whose first build had
\* custom_prototype(none): the link that was none is Function.prototype now
C24_Witness ==
    /\ Built
    /\ is_function(ret.pre)
    /\ prototype(ret.pre) = None
    /\ ret.arg.custom_prototype = None
    /\ ret.arg.inherit = None
    /\ prototype(heap[ret.val]) = Some(StandardObjects.function_object.prototype)
    /\ prototype(heap[ret.arg.prototype])
          = Some(StandardObjects.object_object.prototype)

====
